---- MODULE Spec2Model ----
(***************************************************************************)
(* Edge matching for rotated 9-cell blocks (BlockEdgeMatcher): edge        *)
(* extraction from a height string, rotation of an edge set about the x,   *)
(* y and z axes, effective edges of a block configuration and the          *)
(* adjacency test between two block configurations.                        *)
(*                                                                         *)
(* Specifications:                                                         *)
(*   SpecEdges  extractEdges on a height string, then rotateEdges calls    *)
(*              on the edge set the caller holds;                          *)
(*   Spec       getEffectiveEdges and canBeAdjacent on two block           *)
(*              configurations;                                            *)
(*   SpecIds    getRotatedBlockId and parseRotatedBlockId;                 *)
(*   SpecWFC    WaveFunctionCollapse after construction: getValidBlocks,   *)
(*              findValidAdjacents and canBeAdjacent on a placement grid;  *)
(*   SpecCache  the adjacency cache built by the constructor;              *)
(*   SpecRefs   rotateEdges and getEffectiveEdges on arrays held by        *)
(*              reference;                                                 *)
(*   SpecKeys   getRotatedBlockId of two block configurations and          *)
(*              generateRotationVariants;                                  *)
(*   SpecPair   the adjacency queries on a pair of blocks;                 *)
(*   SpecSculpt the constrained sculpting of 9-cell blocks;                *)
(*   SpecScene  the 4-corner block system: createBlock, removeBlock,       *)
(*              click registration, clicks and key presses.                *)
(***************************************************************************)
EXTENDS Integers, Sequences, FiniteSets, TLC

VARIABLES
  grid,      \* the height string handed to extractEdges (sequence of digit characters)
  edges,     \* the EdgePattern the caller holds (NoEdges before extractEdges)
  call,      \* the last call on the edge set: operation, arguments
  cfgA,      \* first BlockConfiguration of an adjacency query
  cfgB,      \* second BlockConfiguration of an adjacency query
  query,     \* the last call on the block configurations: operation, arguments, return value
  ident,     \* the base identifier and rotation handed to getRotatedBlockId
  idcall,    \* the last call on identifiers: operation, argument, return value
  wfc,       \* the WaveFunctionCollapse object: blockDatabase, adjacencyCache
  placed,    \* the caller's placedBlocks map: position key -> BlockConfiguration
  candidates,\* the caller's list of candidate blocks
  wq,        \* the last query: operation, arguments, return value
  heap,      \* the arrays and edge objects allocated so far, by address
  heldBlock, \* the BlockConfiguration the caller holds
  refcall,   \* the last call on references: operation, arguments, returned
             \* address, the heap and the block before the call
  sceneBlocks, \* the blocks array of the scene: BlockData with entity and heights
  selectedBlockIndex, \* the index set by the last click, -1 before any click
  selectedCorner,     \* the corner chosen with the number keys
  registeredBlocks,   \* the entities whose pointer handler is registered
  handlers,  \* the registered pointer-down callbacks: entity -> captured index
  nextEntity,\* the entity engine.addEntity returns next
  pressed,   \* the number of raise and lower key presses handled
  event      \* the last call or input event of the scene: operation,
             \* arguments, return value, the blocks before it

edgeVars == <<grid, edges, call>>
matchVars == <<cfgA, cfgB, query>>
idVars == <<ident, idcall>>
wfcVars == <<wfc, placed, candidates, wq>>
refVars == <<heap, heldBlock, refcall>>
sceneVars == <<sceneBlocks, selectedBlockIndex, selectedCorner, registeredBlocks, handlers,
               nextEntity, pressed, event>>

vars == <<grid, edges, call, cfgA, cfgB, query, ident, idcall, wfc, placed, candidates, wq,
          heap, heldBlock, refcall, sceneBlocks, selectedBlockIndex, selectedCorner,
          registeredBlocks, handlers, nextEntity, pressed, event>>

(***************************************************************************)
(* Bounds of the model.                                                    *)
(***************************************************************************)
\* heights used in the generated grids are 1..MaxHeight
MaxHeight == 2
\* base identifiers have at most MaxIdLen characters
MaxIdLen == 2
\* the catalog handed to the constructor has at most MaxCatalog entries
MaxCatalog == 2
\* the candidate list of a query has at most MaxCandidates entries
MaxCandidates == 2
\* the placement grid holds at most MaxPlaced blocks
MaxPlaced == 2
\* at most MaxEdgeSets edge objects are allocated in a session
MaxEdgeSets == 3
\* the scene holds at most MaxSceneBlocks blocks
MaxSceneBlocks == 2
\* at most MaxEntities entities are created in a session
MaxEntities == 3
\* at most MaxPresses raise or lower key presses in a session
MaxPresses == 1
\* angles handed to rotateEdges are 90*k for k in -MaxTurns..MaxTurns
MaxTurns == 5

(***************************************************************************)
(* Values.                                                                 *)
(***************************************************************************)
Directions == {"north", "south", "east", "west"}
\* the axes of the BlockConfiguration interface
Axes == {"x", "y", "z"}
\* rotateEdges takes any string as its axis
AxisStrings == Axes \cup {"w"}
\* the angles the BlockConfiguration interface documents
BlockAngles == {0, 90, 180, 270}
CallAngles == {90 * k : k \in (0 - MaxTurns)..MaxTurns}

\* the characters '0'..'9' by value
DigitChar == [n \in 0..9 |-> <<"0", "1", "2", "3", "4", "5", "6", "7", "8", "9">>[n + 1]]

\* a height string from its cell values
HeightString(cells) == [i \in 1..Len(cells) |-> DigitChar[cells[i]]]

\* the grids of the documented scenarios
Grid123456789 == HeightString(<<1, 2, 3, 4, 5, 6, 7, 8, 9>>)
Grid999999999 == HeightString(<<9, 9, 9, 9, 9, 9, 9, 9, 9>>)
Grid555555555 == HeightString(<<5, 5, 5, 5, 5, 5, 5, 5, 5>>)
ExampleGrids == {Grid123456789, Grid999999999, Grid555555555}

\* a flat grid of height 1 with one cell set to any height of the range
SculptedGrids ==
  { HeightString([[i \in 1..9 |-> 1] EXCEPT ![k] = v]) : k \in 1..9, v \in 1..MaxHeight }

Grids == ExampleGrids \cup SculptedGrids

\* height strings that do not have 9 characters: empty, 8 and 10 characters
MalformedGrids ==
  { <<>>,
    HeightString(<<1, 2, 3, 4, 5, 6, 7, 8>>),
    HeightString(<<1, 2, 3, 4, 5, 6, 7, 8, 9, 1>>) }

\* BlockConfiguration.rotation is optional
NoRotation == [absent |-> TRUE]
Rotations == {NoRotation} \cup [axis : Axes, angle : BlockAngles]

\* the caller holds no edge set yet
NoEdges == [north |-> <<>>, east |-> <<>>, south |-> <<>>, west |-> <<>>]

(***************************************************************************)
(* JavaScript primitives.                                                  *)
(***************************************************************************)
\* the value of an array read past the end
Undefined == -1

\* Number(c) for a digit character
digitValues == [c \in {DigitChar[n] : n \in 0..9} |-> CHOOSE n \in 0..9 : DigitChar[n] = c]
Number(c) == digitValues[c]

\* heights.split('').map(Number)
splitDigits(heights) == [i \in 1..Len(heights) |-> Number(heights[i])]

\* h[i] read with a one-based index
AtOneBased(h, i) == IF i \in DOMAIN h THEN h[i] ELSE Undefined

\* h[i], zero-based
At(h, i) == IF i + 1 \in DOMAIN h THEN h[i + 1] ELSE Undefined

\* a % b of JavaScript: the remainder takes the sign of the dividend
jsRemainder(a, b) == IF a >= 0 THEN a % b ELSE 0 - ((0 - a) % b)

\* `${n}` for an integer: its decimal characters
RECURSIVE naturalToString(_)
naturalToString(n) ==
  IF n < 10 THEN <<DigitChar[n]>> ELSE naturalToString(n \div 10) \o <<DigitChar[n % 10]>>

numberToString(n) == IF n < 0 THEN <<"-">> \o naturalToString(0 - n) ELSE naturalToString(n)

\* the result of parseInt on text that does not start with a number
NaN == 0 - 1000000

\* the longest prefix of decimal digits
RECURSIVE digitPrefix(_)
digitPrefix(str) ==
  IF str # <<>> /\ Head(str) \in DOMAIN digitValues
  THEN <<Head(str)>> \o digitPrefix(Tail(str))
  ELSE <<>>

\* the value of a sequence of decimal digits, acc being the value read so far
RECURSIVE digitsValue(_, _)
digitsValue(digits, acc) ==
  IF digits = <<>> THEN acc ELSE digitsValue(Tail(digits), 10 * acc + Number(Head(digits)))

\* parseInt(str): an optional sign, then the leading decimal digits; NaN without digits
parseInt(str) ==
  LET signed == str # <<>> /\ Head(str) \in {"-", "+"}
      digits == digitPrefix(IF signed THEN Tail(str) ELSE str)
  IN  IF digits = <<>> THEN NaN
      ELSE IF signed /\ Head(str) = "-" THEN 0 - digitsValue(digits, 0)
      ELSE digitsValue(digits, 0)

\* str.split(sep) for a one-character separator
RECURSIVE split(_, _)
split(str, sep) ==
  IF \E k \in DOMAIN str : str[k] = sep
  THEN LET k == CHOOSE j \in DOMAIN str : str[j] = sep /\ \A i \in 1..(j - 1) : str[i] # sep
       IN  <<SubSeq(str, 1, k - 1)>> \o split(SubSeq(str, k + 1, Len(str)), sep)
  ELSE <<str>>

\* str.charAt(i), zero-based: the empty string past the end
charAt(str, i) == IF i + 1 \in DOMAIN str THEN str[i + 1] ELSE ""

\* str.slice(from), zero-based
slice(str, from) == SubSeq(str, from + 1, Len(str))

\* array.slice().reverse()
Reverse(s) == [i \in 1..Len(s) |-> s[Len(s) + 1 - i]]

(***************************************************************************)
(* BlockEdgeMatcher.extractEdges                                           *)
(***************************************************************************)
\* the east edge taken from the middle column
extractEdgesMiddleColumn(heights) ==
  LET h == splitDigits(heights)
  IN  [north |-> <<At(h, 0), At(h, 1), At(h, 2)>>,
       east  |-> <<At(h, 1), At(h, 4), At(h, 7)>>,
       south |-> <<At(h, 8), At(h, 7), At(h, 6)>>,
       west  |-> <<At(h, 6), At(h, 3), At(h, 0)>>]

\* the west edge read through the centre cell
extractEdgesThroughCentre(heights) ==
  LET h == splitDigits(heights)
  IN  [north |-> <<At(h, 0), At(h, 1), At(h, 2)>>,
       east  |-> <<At(h, 2), At(h, 5), At(h, 8)>>,
       south |-> <<At(h, 8), At(h, 7), At(h, 6)>>,
       west  |-> <<At(h, 6), At(h, 4), At(h, 0)>>]

\* south and west taken in reading order
extractEdgesReadingOrder(heights) ==
  LET h == splitDigits(heights)
  IN  [north |-> <<At(h, 0), At(h, 1), At(h, 2)>>,
       east  |-> <<At(h, 2), At(h, 5), At(h, 8)>>,
       south |-> <<At(h, 6), At(h, 7), At(h, 8)>>,
       west  |-> <<At(h, 0), At(h, 3), At(h, 6)>>]

extractEdges(heights) ==
  LET h == splitDigits(heights)
  IN  [north |-> <<At(h, 0), At(h, 1), At(h, 2)>>,
       east  |-> <<At(h, 2), At(h, 5), At(h, 8)>>,
       south |-> <<At(h, 8), At(h, 7), At(h, 6)>>,
       west  |-> <<At(h, 6), At(h, 3), At(h, 0)>>]

(***************************************************************************)
(* BlockEdgeMatcher.rotateEdges                                            *)
(***************************************************************************)
\* const rotations = Math.floor(angle / 90) % 4
rotationCount(angle) == jsRemainder(angle \div 90, 4)

\* one pass of the z loop body, the north edge is not reversed
zStepNorthNotReversed(result) ==
  LET temp == result.north
      r1 == [result EXCEPT !.north = result.west]
      r2 == [r1 EXCEPT !.west = r1.south]
      r3 == [r2 EXCEPT !.south = Reverse(r2.east)]
  IN  [r3 EXCEPT !.east = temp]

\* one pass of the z loop body, the south edge is not reversed
zStepSouthNotReversed(result) ==
  LET temp == result.north
      r1 == [result EXCEPT !.north = Reverse(result.west)]
      r2 == [r1 EXCEPT !.west = r1.south]
      r3 == [r2 EXCEPT !.south = r2.east]
  IN  [r3 EXCEPT !.east = temp]

\* one pass of the z loop body, north is not saved before it is overwritten
zStepNoTemp(result) ==
  LET r1 == [result EXCEPT !.north = Reverse(result.west)]
      r2 == [r1 EXCEPT !.west = r1.south]
      r3 == [r2 EXCEPT !.south = Reverse(r2.east)]
  IN  [r3 EXCEPT !.east = r3.north]

\* one pass of the z loop body: the assignments in program order
zStep(result) ==
  LET temp == result.north
      r1 == [result EXCEPT !.north = Reverse(result.west)]
      r2 == [r1 EXCEPT !.west = r1.south]
      r3 == [r2 EXCEPT !.south = Reverse(r2.east)]
  IN  [r3 EXCEPT !.east = temp]

\* one pass of the y loop body, east and west are left as they are
yStepSidesKept(result) ==
  LET temp == result.north
      r1 == [result EXCEPT !.north = Reverse(result.south)]
  IN  [r1 EXCEPT !.south = Reverse(temp)]

\* one pass of the y loop body
yStep(result) ==
  LET temp == result.north
      r1 == [result EXCEPT !.north = Reverse(result.south)]
      r2 == [r1 EXCEPT !.south = Reverse(temp)]
      r3 == [r2 EXCEPT !.east = Reverse(r2.east)]
  IN  [r3 EXCEPT !.west = Reverse(r3.west)]

\* the x loop body without temp: west is taken from the east just written
xStepNoTemp(result) ==
  LET r1 == [result EXCEPT !.east = Reverse(result.west)]
      r2 == [r1 EXCEPT !.west = Reverse(r1.east)]
      r3 == [r2 EXCEPT !.north = Reverse(r2.north)]
  IN  [r3 EXCEPT !.south = Reverse(r3.south)]

\* one pass of the x loop body
xStep(result) ==
  LET temp == result.east
      r1 == [result EXCEPT !.east = Reverse(result.west)]
      r2 == [r1 EXCEPT !.west = Reverse(temp)]
      r3 == [r2 EXCEPT !.north = Reverse(r2.north)]
  IN  [r3 EXCEPT !.south = Reverse(r3.south)]

\* the loop with the bound i <= rotations
RECURSIVE rotateLoopInclusive(_, _, _, _)
rotateLoopInclusive(result, axis, i, rotations) ==
  IF i <= rotations
  THEN rotateLoopInclusive(
         IF axis = "z" THEN zStep(result) ELSE IF axis = "y" THEN yStep(result) ELSE xStep(result),
         axis, i + 1, rotations)
  ELSE result

\* for (let i = 0; i < rotations; i++) { body of the axis }
RECURSIVE rotateLoop(_, _, _, _)
rotateLoop(result, axis, i, rotations) ==
  IF i < rotations
  THEN rotateLoop(
         IF axis = "z" THEN zStep(result) ELSE IF axis = "y" THEN yStep(result) ELSE xStep(result),
         axis, i + 1, rotations)
  ELSE result

rotateEdges(e, axis, angle) ==
  LET rotations == rotationCount(angle)
      result == e
  IN  IF axis = "z" THEN rotateLoop(result, "z", 0, rotations)
      ELSE IF axis = "y" THEN rotateLoop(result, "y", 0, rotations)
      ELSE IF axis = "x" THEN rotateLoop(result, "x", 0, rotations)
      ELSE result

(***************************************************************************)
(* BlockEdgeMatcher.getEffectiveEdges                                      *)
(***************************************************************************)
getEffectiveEdges(block) ==
  LET baseEdges == extractEdges(block.heights)
  IN  IF block.rotation = NoRotation \/ block.rotation.angle = 0
      THEN baseEdges
      ELSE rotateEdges(baseEdges, block.rotation.axis, block.rotation.angle)

(***************************************************************************)
(* BlockEdgeMatcher.canBeAdjacent                                          *)
(***************************************************************************)
\* the table with both edges taken on the side of the direction
edgeMatchesSameSide(direction) == [a |-> direction, b |-> direction]

\* the table with the west row pairing west with west
edgeMatchesWestRowWrong(direction) ==
  CASE direction = "north" -> [a |-> "north", b |-> "south"]
    [] direction = "south" -> [a |-> "south", b |-> "north"]
    [] direction = "east"  -> [a |-> "east",  b |-> "west"]
    [] direction = "west"  -> [a |-> "west",  b |-> "west"]

\* const edgeMatches = { north: {a, b}, south: {a, b}, east: {a, b}, west: {a, b} }
edgeMatches(direction) ==
  CASE direction = "north" -> [a |-> "north", b |-> "south"]
    [] direction = "south" -> [a |-> "south", b |-> "north"]
    [] direction = "east"  -> [a |-> "east",  b |-> "west"]
    [] direction = "west"  -> [a |-> "west",  b |-> "east"]

canBeAdjacent(blockA, blockB, direction) ==
  LET edgesA == getEffectiveEdges(blockA)
      edgesB == getEffectiveEdges(blockB)
      match == edgeMatches(direction)
      edgeA == edgesA[match.a]
      edgeB == edgesB[match.b]
  IN  /\ Len(edgeA) = Len(edgeB)
      /\ \A index \in 1..Len(edgeA) : edgeA[index] = edgeB[index]

(***************************************************************************)
(* BlockEdgeMatcher.getRotatedBlockId, parseRotatedBlockId                 *)
(***************************************************************************)
\* the suffix without the axis letter
getRotatedBlockIdNoAxis(baseId, rotation) ==
  IF rotation = NoRotation \/ rotation.angle = 0
  THEN baseId
  ELSE baseId \o <<"_">> \o numberToString(rotation.angle)

getRotatedBlockId(baseId, rotation) ==
  IF rotation = NoRotation \/ rotation.angle = 0
  THEN baseId
  ELSE baseId \o <<"_">> \o <<rotation.axis>> \o numberToString(rotation.angle)

\* the angle parsed from the whole rotation part, axis letter included
parseRotatedBlockIdNoSlice(rotatedId) ==
  LET parts == split(rotatedId, "_")
  IN  IF Len(parts) = 1
      THEN [baseId |-> parts[1], rotation |-> NoRotation]
      ELSE LET rotationPart == parts[2]
               axis == charAt(rotationPart, 0)
               angle == parseInt(rotationPart)
           IN  [baseId |-> parts[1], rotation |-> [axis |-> axis, angle |-> angle]]

parseRotatedBlockId(rotatedId) ==
  LET parts == split(rotatedId, "_")
  IN  IF Len(parts) = 1
      THEN [baseId |-> parts[1], rotation |-> NoRotation]
      ELSE LET rotationPart == parts[2]
               axis == charAt(rotationPart, 0)
               angle == parseInt(slice(rotationPart, 1))
           IN  [baseId |-> parts[1], rotation |-> [axis |-> axis, angle |-> angle]]

(***************************************************************************)
(* generateRotationVariants                                                *)
(***************************************************************************)
\* for (const angle of [90, 180, 270])
variantAngles == <<90, 180, 270>>

generateRotationVariants(baseBlock) ==
  LET original == [id |-> baseBlock.id, heights |-> baseBlock.heights, rotation |-> NoRotation]
      rotated == [k \in DOMAIN variantAngles |->
                    [id |-> baseBlock.id, heights |-> baseBlock.heights,
                     rotation |-> [axis |-> "z", angle |-> variantAngles[k]]]]
  IN  <<original>> \o rotated

(***************************************************************************)
(* BlockEdgeMatcher.findValidAdjacents                                     *)
(***************************************************************************)
findValidAdjacents(sourceBlock, direction, availableBlocks) ==
  LET keep(block) == canBeAdjacent(sourceBlock, block, direction)
  IN  SelectSeq(availableBlocks, keep)

(***************************************************************************)
(* WaveFunctionCollapse                                                    *)
(***************************************************************************)
\* new Map()
EmptyMap == [k \in {} |-> FALSE]

\* map.set(key, value)
mapSet(map, key, value) ==
  [k \in DOMAIN map \cup {key} |-> IF k = key THEN value ELSE map[k]]

\* the characters of a direction in a template literal
directionChars(direction) ==
  CASE direction = "north" -> <<"n", "o", "r", "t", "h">>
    [] direction = "south" -> <<"s", "o", "u", "t", "h">>
    [] direction = "east"  -> <<"e", "a", "s", "t">>
    [] direction = "west"  -> <<"w", "e", "s", "t">>

\* const directions = ['north', 'south', 'east', 'west']
directions == <<"north", "south", "east", "west">>

\* `${direction}:${keyB}`
cacheKeyOf(direction, keyB) == directionChars(direction) \o <<":">> \o keyB

\* the inner loop with the arguments of canBeAdjacent exchanged
RECURSIVE cacheRowSwapped(_, _, _, _, _)
cacheRowSwapped(blockDatabase, blockA, direction, j, row) ==
  IF j > Len(blockDatabase) THEN row
  ELSE LET blockB == blockDatabase[j]
           keyB == getRotatedBlockId(blockB.id, blockB.rotation)
           cacheKey == cacheKeyOf(direction, keyB)
           canAdjacent == canBeAdjacent(blockB, blockA, direction)
       IN  cacheRowSwapped(blockDatabase, blockA, direction, j + 1, mapSet(row, cacheKey, canAdjacent))

\* for (const blockB of this.blockDatabase) { ... }, from entry j on
RECURSIVE cacheRow(_, _, _, _, _)
cacheRow(blockDatabase, blockA, direction, j, row) ==
  IF j > Len(blockDatabase) THEN row
  ELSE LET blockB == blockDatabase[j]
           keyB == getRotatedBlockId(blockB.id, blockB.rotation)
           cacheKey == cacheKeyOf(direction, keyB)
           canAdjacent == canBeAdjacent(blockA, blockB, direction)
       IN  cacheRow(blockDatabase, blockA, direction, j + 1, mapSet(row, cacheKey, canAdjacent))

\* the entries of the first direction only
cacheRowsNorthOnly(blockDatabase, blockA, d, row) ==
  cacheRow(blockDatabase, blockA, directions[1], 1, row)

\* for (const direction of directions) { ... }, from direction d on
RECURSIVE cacheRows(_, _, _, _)
cacheRows(blockDatabase, blockA, d, row) ==
  IF d > Len(directions) THEN row
  ELSE cacheRows(blockDatabase, blockA, d + 1, cacheRow(blockDatabase, blockA, directions[d], 1, row))

\* for (const blockA of this.blockDatabase) { ... }, from entry i on
RECURSIVE precomputeLoop(_, _, _)
precomputeLoop(blockDatabase, i, adjacencyCache) ==
  IF i > Len(blockDatabase) THEN adjacencyCache
  ELSE LET blockA == blockDatabase[i]
           keyA == getRotatedBlockId(blockA.id, blockA.rotation)
       IN  precomputeLoop(blockDatabase, i + 1,
                          mapSet(adjacencyCache, keyA, cacheRows(blockDatabase, blockA, 1, EmptyMap)))

precomputeAdjacencies(blockDatabase) == precomputeLoop(blockDatabase, 1, EmptyMap)

\* new WaveFunctionCollapse(blocks)
constructor(blocks) ==
  [blockDatabase |-> blocks, adjacencyCache |-> precomputeAdjacencies(blocks)]

getOppositeDirection(direction) ==
  CASE direction = "north" -> "south"
    [] direction = "south" -> "north"
    [] direction = "east"  -> "west"
    [] direction = "west"  -> "east"

\* const neighbors = [ ... ]
neighborsOf(position) ==
  << [pos |-> [x |-> position.x, y |-> position.y - 1], direction |-> "north"],
     [pos |-> [x |-> position.x, y |-> position.y + 1], direction |-> "south"],
     [pos |-> [x |-> position.x + 1, y |-> position.y], direction |-> "east"],
     [pos |-> [x |-> position.x - 1, y |-> position.y], direction |-> "west"] >>

\* `${neighbor.pos.x},${neighbor.pos.y}`
neighborKeyOf(pos) == numberToString(pos.x) \o <<",">> \o numberToString(pos.y)

\* the filter callback with the neighbour's own direction handed to canBeAdjacent
RECURSIVE keepCandidateSameDirection(_, _, _, _)
keepCandidateSameDirection(position, placedBlocks, candidateBlock, n) ==
  IF n > Len(neighborsOf(position)) THEN TRUE
  ELSE LET neighbor == neighborsOf(position)[n]
           neighborKey == neighborKeyOf(neighbor.pos)
       IN  IF /\ neighborKey \in DOMAIN placedBlocks
              /\ ~canBeAdjacent(placedBlocks[neighborKey], candidateBlock, neighbor.direction)
           THEN FALSE
           ELSE keepCandidateSameDirection(position, placedBlocks, candidateBlock, n + 1)

\* the filter callback: for (const neighbor of neighbors) { ... } return true, from neighbour n on
RECURSIVE keepCandidate(_, _, _, _)
keepCandidate(position, placedBlocks, candidateBlock, n) ==
  IF n > Len(neighborsOf(position)) THEN TRUE
  ELSE LET neighbor == neighborsOf(position)[n]
           neighborKey == neighborKeyOf(neighbor.pos)
       IN  IF /\ neighborKey \in DOMAIN placedBlocks
              /\ ~canBeAdjacent(placedBlocks[neighborKey], candidateBlock,
                                getOppositeDirection(neighbor.direction))
           THEN FALSE
           ELSE keepCandidate(position, placedBlocks, candidateBlock, n + 1)

\* the kept candidates pushed to the front of the result
getValidBlocksPrepending(position, placedBlocks, allPossibleBlocks) ==
  LET keep(candidateBlock) == keepCandidate(position, placedBlocks, candidateBlock, 1)
  IN  Reverse(SelectSeq(allPossibleBlocks, keep))

getValidBlocks(position, placedBlocks, allPossibleBlocks) ==
  LET keep(candidateBlock) == keepCandidate(position, placedBlocks, candidateBlock, 1)
  IN  SelectSeq(allPossibleBlocks, keep)

\* the rejected candidates removed from the list that was passed in
objectsAfterGetValidBlocksInPlace(this, position, placedBlocks, allPossibleBlocks) ==
  [this |-> this, placedBlocks |-> placedBlocks,
   allPossibleBlocks |-> getValidBlocks(position, placedBlocks, allPossibleBlocks)]

\* the objects getValidBlocks was handed, after the call: it assigns no field
\* of this and calls only Map.get and Array.filter on its arguments
objectsAfterGetValidBlocks(this, position, placedBlocks, allPossibleBlocks) ==
  [this |-> this, placedBlocks |-> placedBlocks, allPossibleBlocks |-> allPossibleBlocks]

(***************************************************************************)
(* The edge pipeline on references: arrays and edge objects live on a heap *)
(* and are named by their addresses.                                       *)
(***************************************************************************)
EmptyHeap == [arrays |-> <<>>, objects |-> <<>>]

\* [v0, v1, v2]: a new array
newArray(h, values) ==
  [heap |-> [h EXCEPT !.arrays = Append(@, values)], ref |-> Len(h.arrays) + 1]

\* { north: ..., east: ..., south: ..., west: ... }: a new object
newObject(h, fields) ==
  [heap |-> [h EXCEPT !.objects = Append(@, fields)], ref |-> Len(h.objects) + 1]

\* array.reverse(): the array reversed in place
reverseInPlace(h, array) ==
  [heap |-> [h EXCEPT !.arrays[array] = Reverse(@)], ref |-> array]

\* array.slice().reverse(): a reversed copy
sliceReverse(h, array) == newArray(h, Reverse(h.arrays[array]))

\* object.side = array
setField(h, object, side, array) == [h EXCEPT !.objects[object][side] = array]

\* the values an edge object holds
Deref(h, object) ==
  [north |-> h.arrays[h.objects[object].north],
   east  |-> h.arrays[h.objects[object].east],
   south |-> h.arrays[h.objects[object].south],
   west  |-> h.arrays[h.objects[object].west]]

extractEdgesRefs(h, heights) ==
  LET e == extractEdges(heights)
      n == newArray(h, e.north)
      ea == newArray(n.heap, e.east)
      so == newArray(ea.heap, e.south)
      w == newArray(so.heap, e.west)
  IN  newObject(w.heap, [north |-> n.ref, east |-> ea.ref, south |-> so.ref, west |-> w.ref])

\* one pass of the z loop body
zStepRefs(h, result) ==
  LET temp == h.objects[result].north
      a == sliceReverse(h, h.objects[result].west)
      h1 == setField(a.heap, result, "north", a.ref)
      h2 == setField(h1, result, "west", h1.objects[result].south)
      b == sliceReverse(h2, h2.objects[result].east)
      h3 == setField(b.heap, result, "south", b.ref)
  IN  setField(h3, result, "east", temp)

\* one pass of the y loop body
yStepRefs(h, result) ==
  LET temp == h.objects[result].north
      a == sliceReverse(h, h.objects[result].south)
      h1 == setField(a.heap, result, "north", a.ref)
      b == sliceReverse(h1, temp)
      h2 == setField(b.heap, result, "south", b.ref)
      c == sliceReverse(h2, h2.objects[result].east)
      h3 == setField(c.heap, result, "east", c.ref)
      d == sliceReverse(h3, h3.objects[result].west)
  IN  setField(d.heap, result, "west", d.ref)

\* one pass of the x loop body
xStepRefs(h, result) ==
  LET temp == h.objects[result].east
      a == sliceReverse(h, h.objects[result].west)
      h1 == setField(a.heap, result, "east", a.ref)
      b == sliceReverse(h1, temp)
      h2 == setField(b.heap, result, "west", b.ref)
      c == sliceReverse(h2, h2.objects[result].north)
      h3 == setField(c.heap, result, "north", c.ref)
      d == sliceReverse(h3, h3.objects[result].south)
  IN  setField(d.heap, result, "south", d.ref)

\* for (let i = 0; i < rotations; i++) { ... }
RECURSIVE rotateLoopRefs(_, _, _, _, _)
rotateLoopRefs(h, result, axis, i, rotations) ==
  IF i < rotations
  THEN rotateLoopRefs(
         IF axis = "z" THEN zStepRefs(h, result)
         ELSE IF axis = "y" THEN yStepRefs(h, result) ELSE xStepRefs(h, result),
         result, axis, i + 1, rotations)
  ELSE h

rotateEdgesRefs(h, e, axis, angle) ==
  LET rotations == rotationCount(angle)
      result == newObject(h, h.objects[e])
  IN  [heap |-> IF axis = "z" THEN rotateLoopRefs(result.heap, result.ref, "z", 0, rotations)
                ELSE IF axis = "y" THEN rotateLoopRefs(result.heap, result.ref, "y", 0, rotations)
                ELSE IF axis = "x" THEN rotateLoopRefs(result.heap, result.ref, "x", 0, rotations)
                ELSE result.heap,
       ref |-> result.ref]

\* block.heights and block.rotation are read, no field of block is assigned
getEffectiveEdgesRefs(h, b) ==
  LET baseEdges == extractEdgesRefs(h, b.heights)
      rotated == rotateEdgesRefs(baseEdges.heap, baseEdges.ref, b.rotation.axis, b.rotation.angle)
  IN  IF b.rotation = NoRotation \/ b.rotation.angle = 0
      THEN [heap |-> baseEdges.heap, ref |-> baseEdges.ref, block |-> b]
      ELSE [heap |-> rotated.heap, ref |-> rotated.ref, block |-> b]

(***************************************************************************)
(* Constrained sculpting of 9-cell blocks (constrained_sculpting.ts).      *)
(***************************************************************************)
\* the result null of getNextValidEdgeHeight
Null == 0 - 2

\* the largest height of a corner or centre point
MaxPointHeight == 5

\* array.indexOf(value), zero-based, -1 when absent
indexOf(array, value) ==
  IF \E k \in DOMAIN array : array[k] = value
  THEN (CHOOSE k \in DOMAIN array : array[k] = value /\ \A j \in 1..(k - 1) : array[j] # value) - 1
  ELSE 0 - 1

isEdgePosition(gridPosition) == gridPosition \in {2, 4, 6, 8}

validHeights == <<1, 3, 5>>

getNextValidEdgeHeight(currentHeight, direction) ==
  LET currentIndex == indexOf(validHeights, currentHeight)
  IN  IF currentIndex = 0 - 1 /\ currentHeight # NaN /\ currentHeight < 1 THEN 1
      ELSE IF currentIndex = 0 - 1 /\ currentHeight = 2
        THEN (IF direction = "up" THEN 3 ELSE 1)
      ELSE IF currentIndex = 0 - 1 /\ currentHeight = 4
        THEN (IF direction = "up" THEN 5 ELSE 3)
      ELSE IF currentIndex = 0 - 1 /\ currentHeight > 5 THEN 5
      ELSE IF direction = "up"
        THEN (IF currentIndex < Len(validHeights) - 1
              THEN validHeights[currentIndex + 2] ELSE Null)
      ELSE (IF currentIndex > 0 THEN validHeights[currentIndex] ELSE Null)

\* const pointToGrid = { 1: 1, 2: 3, 3: 7, 4: 9, 5: 5 }
pointToGrid == <<1, 3, 7, 9, 5>>
\* const pointToIndex = { 1: 0, 2: 2, 3: 6, 4: 8, 5: 4 }
pointToIndex == <<0, 2, 6, 8, 4>>
\* const modifiablePositions = [0, 2, 4, 6, 8]
modifiablePositions == <<0, 2, 4, 6, 8>>

\* heightArray.join('')
RECURSIVE join(_)
join(array) == IF array = <<>> THEN <<>> ELSE numberToString(Head(array)) \o join(Tail(array))

modifyPointHeight(heights, point, newHeight) ==
  IF point < 1 \/ point > 5 THEN heights
  ELSE IF newHeight < 0 \/ newHeight > MaxPointHeight THEN heights
  ELSE LET heightArray == [i \in DOMAIN heights |-> parseInt(<<heights[i]>>)]
           position == modifiablePositions[point]
       IN  join([heightArray EXCEPT ![position + 1] = newHeight])

\* block.heights = newHeights; the result: the blocks array and the value returned
updateBlockHeights(blks, blockIndex, newHeights) ==
  IF blockIndex < 0 \/ blockIndex >= Len(blks) THEN [blocks |-> blks, ret |-> FALSE]
  ELSE [blocks |-> [blks EXCEPT ![blockIndex + 1].heights = newHeights], ret |-> TRUE]

updateBlockPoint(blks, blockIndex, point, newHeight) ==
  IF blockIndex < 0 \/ blockIndex >= Len(blks) THEN [blocks |-> blks, ret |-> FALSE]
  ELSE LET newHeights == modifyPointHeight(blks[blockIndex + 1].heights, point, newHeight)
       IN  updateBlockHeights(blks, blockIndex, newHeights)

sculptRaiseWithConstraints(blks, blockIndex, point) ==
  IF blockIndex < 0 \/ blockIndex >= Len(blks) THEN [blocks |-> blks, ret |-> FALSE]
  ELSE IF point < 1 \/ point > 5 THEN [blocks |-> blks, ret |-> FALSE]
  ELSE LET gridPosition == pointToGrid[point]
           arrayIndex == pointToIndex[point]
           currentHeight == parseInt(<<blks[blockIndex + 1].heights[arrayIndex + 1]>>)
           nextHeight == getNextValidEdgeHeight(currentHeight, "up")
       IN  IF isEdgePosition(gridPosition)
           THEN IF nextHeight = Null THEN [blocks |-> blks, ret |-> FALSE]
                ELSE updateBlockPoint(blks, blockIndex, point, nextHeight)
           ELSE IF currentHeight >= MaxPointHeight THEN [blocks |-> blks, ret |-> FALSE]
                ELSE updateBlockPoint(blks, blockIndex, point, currentHeight + 1)

sculptLowerWithConstraints(blks, blockIndex, point) ==
  IF blockIndex < 0 \/ blockIndex >= Len(blks) THEN [blocks |-> blks, ret |-> FALSE]
  ELSE IF point < 1 \/ point > 5 THEN [blocks |-> blks, ret |-> FALSE]
  ELSE LET gridPosition == pointToGrid[point]
           arrayIndex == pointToIndex[point]
           currentHeight == parseInt(<<blks[blockIndex + 1].heights[arrayIndex + 1]>>)
           nextHeight == getNextValidEdgeHeight(currentHeight, "down")
       IN  IF isEdgePosition(gridPosition)
           THEN IF nextHeight = Null THEN [blocks |-> blks, ret |-> FALSE]
                ELSE updateBlockPoint(blks, blockIndex, point, nextHeight)
           ELSE IF currentHeight <= 0 THEN [blocks |-> blks, ret |-> FALSE]
                ELSE updateBlockPoint(blks, blockIndex, point, currentHeight - 1)

sculptCornerUp(blks, blockIndex, corner) ==
  IF corner < 1 \/ corner > 4 THEN [blocks |-> blks, ret |-> FALSE]
  ELSE sculptRaiseWithConstraints(blks, blockIndex, corner)

sculptCornerDown(blks, blockIndex, corner) ==
  IF corner < 1 \/ corner > 4 THEN [blocks |-> blks, ret |-> FALSE]
  ELSE sculptLowerWithConstraints(blks, blockIndex, corner)

sculptCenterUp(blks, blockIndex) == sculptRaiseWithConstraints(blks, blockIndex, 5)

sculptCenterDown(blks, blockIndex) == sculptLowerWithConstraints(blks, blockIndex, 5)

(***************************************************************************)
(* The 4-corner block system (dcl_sdk7_block_system_corrected.ts).  Its    *)
(* functions that share a name with the 9-cell system carry the suffix 4.  *)
(***************************************************************************)
\* the validation of createBlock and updateBlockHeights: four digits 1..3
validCornerHeights(heights) ==
  /\ Len(heights) = 4
  /\ \A i \in DOMAIN heights :
       LET height == parseInt(<<heights[i]>>)
       IN  ~(height # NaN /\ (height < 1 \/ height > 3))

\* blocks.findIndex(block => block.entity === entity)
findBlockByEntity(blks, entity) ==
  IF \E k \in DOMAIN blks : blks[k].entity = entity
  THEN (CHOOSE k \in DOMAIN blks :
          blks[k].entity = entity /\ \A j \in 1..(k - 1) : blks[j].entity # entity) - 1
  ELSE 0 - 1

updateBlockHeights4(blks, blockIndex, newHeights) ==
  IF blockIndex < 0 \/ blockIndex >= Len(blks) THEN [blocks |-> blks, ret |-> FALSE]
  ELSE IF ~validCornerHeights(newHeights) THEN [blocks |-> blks, ret |-> FALSE]
  ELSE [blocks |-> [blks EXCEPT ![blockIndex + 1].heights = newHeights], ret |-> TRUE]

modifyCornerHeight(heights, corner, newHeight) ==
  IF corner < 1 \/ corner > 4 THEN heights
  ELSE IF newHeight < 1 \/ newHeight > 3 THEN heights
  ELSE LET heightArray == [i \in DOMAIN heights |-> parseInt(<<heights[i]>>)]
       IN  join([heightArray EXCEPT ![corner] = newHeight])

updateBlockCorner4(blks, blockIndex, corner, newHeight) ==
  IF blockIndex < 0 \/ blockIndex >= Len(blks) THEN [blocks |-> blks, ret |-> FALSE]
  ELSE LET newHeights == modifyCornerHeight(blks[blockIndex + 1].heights, corner, newHeight)
       IN  IF newHeights = blks[blockIndex + 1].heights THEN [blocks |-> blks, ret |-> FALSE]
           ELSE updateBlockHeights4(blks, blockIndex, newHeights)

sculptCornerUp4(blks, blockIndex, corner) ==
  IF corner < 1 \/ corner > 4 THEN [blocks |-> blks, ret |-> FALSE]
  ELSE IF blockIndex < 0 \/ blockIndex >= Len(blks) THEN [blocks |-> blks, ret |-> FALSE]
  ELSE LET currentHeight == parseInt(<<blks[blockIndex + 1].heights[corner]>>)
       IN  IF currentHeight >= 3 THEN [blocks |-> blks, ret |-> FALSE]
           ELSE updateBlockCorner4(blks, blockIndex, corner, currentHeight + 1)

sculptCornerDown4(blks, blockIndex, corner) ==
  IF corner < 1 \/ corner > 4 THEN [blocks |-> blks, ret |-> FALSE]
  ELSE IF blockIndex < 0 \/ blockIndex >= Len(blks) THEN [blocks |-> blks, ret |-> FALSE]
  ELSE LET currentHeight == parseInt(<<blks[blockIndex + 1].heights[corner]>>)
       IN  IF currentHeight <= 1 THEN [blocks |-> blks, ret |-> FALSE]
           ELSE updateBlockCorner4(blks, blockIndex, corner, currentHeight - 1)

\* blocks.splice(blockIndex, 1)
splice(blks, blockIndex) ==
  SubSeq(blks, 1, blockIndex) \o SubSeq(blks, blockIndex + 2, Len(blks))

removeBlock(blks, blockIndex) ==
  IF blockIndex < 0 \/ blockIndex >= Len(blks) THEN [blocks |-> blks, ret |-> FALSE]
  ELSE [blocks |-> splice(blks, blockIndex), ret |-> TRUE]

\* one run of the system of setupBlockInteraction: every block whose entity
\* is not registered gets a handler that captures the index it has now
RECURSIVE registerFrom(_, _, _)
registerFrom(blks, index, hs) ==
  IF index >= Len(blks) THEN hs
  ELSE LET entity == blks[index + 1].entity
       IN  IF entity \in DOMAIN hs THEN registerFrom(blks, index + 1, hs)
           ELSE registerFrom(blks, index + 1, mapSet(hs, entity, index))

(***************************************************************************)
(* Specification of the edge pipeline.                                     *)
(***************************************************************************)
\* the values of the variables a specification does not use
IdleGrid == HeightString(<<1, 1, 1, 1, 1, 1, 1, 1, 1>>)
IdleBlock == [id |-> <<"i", "d", "l", "e">>, heights |-> IdleGrid, rotation |-> NoRotation]
IdleIds ==
  /\ ident = [baseId |-> <<>>, rotation |-> NoRotation]
  /\ idcall = [op |-> "none"]
IdleWFC ==
  /\ wfc = constructor(<<>>)
  /\ placed = EmptyMap
  /\ candidates = <<>>
  /\ wq = [op |-> "none"]
IdleRefs ==
  /\ heap = EmptyHeap
  /\ heldBlock = IdleBlock
  /\ refcall = [op |-> "none"]
IdleScene ==
  /\ sceneBlocks = <<>>
  /\ selectedBlockIndex = 0 - 1
  /\ selectedCorner = 1
  /\ registeredBlocks = {}
  /\ handlers = EmptyMap
  /\ nextEntity = 1
  /\ pressed = 0
  /\ event = [op |-> "none"]

InitEdges ==
  /\ grid \in Grids \cup MalformedGrids
  /\ edges = NoEdges
  /\ call = [op |-> "none"]
  /\ cfgA = IdleBlock
  /\ cfgB = IdleBlock
  /\ query = [op |-> "none"]
  /\ IdleIds
  /\ IdleWFC
  /\ IdleRefs
  /\ IdleScene

ExtractEdges ==
  /\ call.op = "none"
  /\ edges' = extractEdges(grid)
  /\ call' = [op |-> "extractEdges", outcome |-> "returned"]
  /\ UNCHANGED <<grid, matchVars, idVars, wfcVars, refVars, sceneVars>>

RotateEdges ==
  /\ call.op # "none"
  /\ \E axis \in AxisStrings, angle \in CallAngles :
       /\ edges' = rotateEdges(edges, axis, angle)
       /\ call' = [op |-> "rotateEdges", axis |-> axis, angle |-> angle, arg |-> edges,
                   outcome |-> "returned"]
  /\ UNCHANGED <<grid, matchVars, idVars, wfcVars, refVars, sceneVars>>

NextEdges == ExtractEdges \/ RotateEdges

SpecEdges == InitEdges /\ [][NextEdges]_vars
(***************************************************************************)
(* Specification of the queries on two block configurations.               *)
(***************************************************************************)
Init ==
  /\ grid = IdleGrid
  /\ edges = NoEdges
  /\ call = [op |-> "none"]
  /\ cfgA \in [id : {<<"A">>}, heights : Grids, rotation : Rotations]
  /\ cfgB \in [id : {<<"B">>}, heights : Grids, rotation : Rotations]
  /\ query = [op |-> "none"]
  /\ IdleIds
  /\ IdleWFC
  /\ IdleRefs
  /\ IdleScene

GetEffectiveEdges ==
  /\ query.op = "none"
  /\ query' = [op |-> "getEffectiveEdges", ret |-> getEffectiveEdges(cfgA)]
  /\ UNCHANGED <<edgeVars, cfgA, cfgB, idVars, wfcVars, refVars, sceneVars>>

CanBeAdjacent ==
  /\ query.op = "none"
  /\ \E direction \in Directions :
       query' = [op |-> "canBeAdjacent", direction |-> direction,
                 ret |-> canBeAdjacent(cfgA, cfgB, direction)]
  /\ UNCHANGED <<edgeVars, cfgA, cfgB, idVars, wfcVars, refVars, sceneVars>>

Next == GetEffectiveEdges \/ CanBeAdjacent

Spec == Init /\ [][Next]_vars
(***************************************************************************)
(* Specification of the identifier encoding.                               *)
(***************************************************************************)
\* base identifiers: up to MaxIdLen characters, the separator among them
IdChars == {"a", "_"}
BaseIds == UNION {[1..n -> IdChars] : n \in 0..MaxIdLen}

\* identifiers handed to parseRotatedBlockId that getRotatedBlockId does not
\* produce: "a_w90", "a_za", "a_z", "a_"
RawIds ==
  { <<"a", "_", "w", "9", "0">>, <<"a", "_", "z", "a">>, <<"a", "_", "z">>, <<"a", "_">> }

InitIds ==
  /\ grid = IdleGrid
  /\ edges = NoEdges
  /\ call = [op |-> "none"]
  /\ cfgA = IdleBlock
  /\ cfgB = IdleBlock
  /\ query = [op |-> "none"]
  /\ ident \in [baseId : BaseIds, rotation : Rotations]
  /\ idcall = [op |-> "none"]
  /\ IdleWFC
  /\ IdleRefs
  /\ IdleScene

GetRotatedBlockId ==
  /\ idcall.op = "none"
  /\ idcall' = [op |-> "getRotatedBlockId",
                ret |-> getRotatedBlockId(ident.baseId, ident.rotation),
                outcome |-> "returned"]
  /\ UNCHANGED <<edgeVars, matchVars, ident, wfcVars, refVars, sceneVars>>

\* the identifier just produced is parsed back
ParseRotatedBlockId ==
  /\ idcall.op = "getRotatedBlockId"
  /\ idcall' = [op |-> "parseRotatedBlockId", arg |-> idcall.ret,
                ret |-> parseRotatedBlockId(idcall.ret), outcome |-> "returned"]
  /\ UNCHANGED <<edgeVars, matchVars, ident, wfcVars, refVars, sceneVars>>

\* an identifier from elsewhere is parsed
ParseRawId ==
  /\ idcall.op = "none"
  /\ \E rotatedId \in RawIds :
       idcall' = [op |-> "parseRotatedBlockId", arg |-> rotatedId,
                  ret |-> parseRotatedBlockId(rotatedId), outcome |-> "returned"]
  /\ UNCHANGED <<edgeVars, matchVars, ident, wfcVars, refVars, sceneVars>>

NextIds == GetRotatedBlockId \/ ParseRotatedBlockId \/ ParseRawId

SpecIds == InitIds /\ [][NextIds]_vars

(***************************************************************************)
(* Specification of the composite keys of two block configurations.        *)
(***************************************************************************)
InitKeys ==
  /\ grid = IdleGrid
  /\ edges = NoEdges
  /\ call = [op |-> "none"]
  /\ cfgA \in [id : BaseIds, heights : {Grid123456789}, rotation : Rotations]
  /\ cfgB \in [id : BaseIds, heights : {Grid123456789}, rotation : Rotations]
  /\ query = [op |-> "none"]
  /\ IdleIds
  /\ IdleWFC
  /\ IdleRefs
  /\ IdleScene

\* the composite keys of the two configurations
RotatedBlockIds ==
  /\ idcall.op = "none"
  /\ idcall' = [op |-> "getRotatedBlockId",
                retA |-> getRotatedBlockId(cfgA.id, cfgA.rotation),
                retB |-> getRotatedBlockId(cfgB.id, cfgB.rotation)]
  /\ UNCHANGED <<edgeVars, matchVars, ident, wfcVars, refVars, sceneVars>>

\* the variants of the first configuration's base block
GenerateRotationVariants ==
  /\ idcall.op = "none"
  /\ idcall' = [op |-> "generateRotationVariants",
                ret |-> generateRotationVariants([id |-> cfgA.id, heights |-> cfgA.heights])]
  /\ UNCHANGED <<edgeVars, matchVars, ident, wfcVars, refVars, sceneVars>>

NextKeys == RotatedBlockIds \/ GenerateRotationVariants

SpecKeys == InitKeys /\ [][NextKeys]_vars

(***************************************************************************)
(* Specification of WaveFunctionCollapse.                                  *)
(***************************************************************************)
\* the blocks of a session: "a" with a raised corner; "a" flat with a zero
\* rotation (the same composite key, other edges); "b" with a raised corner,
\* turned by 90 degrees about z
BlockA == [id |-> <<"a">>, heights |-> HeightString(<<2, 1, 1, 1, 1, 1, 1, 1, 1>>),
           rotation |-> NoRotation]
BlockAFlat == [id |-> <<"a">>, heights |-> HeightString(<<1, 1, 1, 1, 1, 1, 1, 1, 1>>),
               rotation |-> [axis |-> "x", angle |-> 0]]
BlockB == [id |-> <<"b">>, heights |-> HeightString(<<2, 1, 1, 1, 1, 1, 1, 1, 1>>),
           rotation |-> [axis |-> "z", angle |-> 90]]
SessionBlocks == {BlockA, BlockAFlat, BlockB}

\* the queried positions, and the cells blocks are placed on: the four
\* cardinal neighbours of the origin and one diagonal cell
Origin == [x |-> 0, y |-> 0]
EastOfOrigin == [x |-> 1, y |-> 0]
Positions == {Origin, EastOfOrigin}
PlacedCells ==
  { [x |-> 0, y |-> 0 - 1], [x |-> 0, y |-> 1], [x |-> 1, y |-> 0], [x |-> 0 - 1, y |-> 0],
    [x |-> 1, y |-> 1] }

SeqsUpTo(S, n) == UNION {[1..k -> S] : k \in 0..n}

\* the placedBlocks maps with at most MaxPlaced entries
PlacedMaps ==
  UNION { [ {neighborKeyOf(c) : c \in cells} -> SessionBlocks ] :
          cells \in {cs \in SUBSET PlacedCells : Cardinality(cs) <= MaxPlaced} }

InitWFC ==
  /\ grid = IdleGrid
  /\ edges = NoEdges
  /\ call = [op |-> "none"]
  /\ cfgA = IdleBlock
  /\ cfgB = IdleBlock
  /\ query = [op |-> "none"]
  /\ IdleIds
  /\ \E blocks \in SeqsUpTo(SessionBlocks, MaxCatalog) : wfc = constructor(blocks)
  /\ placed \in PlacedMaps
  /\ candidates \in SeqsUpTo(SessionBlocks, MaxCandidates)
  /\ wq = [op |-> "none"]
  /\ IdleRefs
  /\ IdleScene

GetValidBlocks ==
  \E position \in Positions :
    LET after == objectsAfterGetValidBlocks(wfc, position, placed, candidates)
    IN  /\ wq.op = "none"
        /\ wq' = [op |-> "getValidBlocks", position |-> position,
                  ret |-> getValidBlocks(position, placed, candidates),
                  outcome |-> "returned"]
        /\ wfc' = after.this
        /\ placed' = after.placedBlocks
        /\ candidates' = after.allPossibleBlocks
        /\ UNCHANGED <<edgeVars, matchVars, idVars, refVars, sceneVars>>

\* a placed block is the source, the candidate list the available blocks
FindValidAdjacents ==
  \E key \in DOMAIN placed, direction \in Directions :
    /\ wq.op = "none"
    /\ wq' = [op |-> "findValidAdjacents",
              ret |-> findValidAdjacents(placed[key], direction, candidates),
              outcome |-> "returned"]
    /\ UNCHANGED <<edgeVars, matchVars, idVars, wfc, placed, candidates, refVars, sceneVars>>

\* a placed block against a candidate
CanBeAdjacentPlaced ==
  \E key \in DOMAIN placed, i \in DOMAIN candidates, direction \in Directions :
    /\ wq.op = "none"
    /\ wq' = [op |-> "canBeAdjacent",
              ret |-> canBeAdjacent(placed[key], candidates[i], direction),
              outcome |-> "returned"]
    /\ UNCHANGED <<edgeVars, matchVars, idVars, wfc, placed, candidates, refVars, sceneVars>>

NextWFC == GetValidBlocks \/ FindValidAdjacents \/ CanBeAdjacentPlaced

SpecWFC == InitWFC /\ [][NextWFC]_vars

(***************************************************************************)
(* Specification of the three adjacency queries on two block               *)
(* configurations.                                                         *)
(***************************************************************************)
\* the example grid, a flat grid, and flat grids with the centre or a corner raised
PairGrids ==
  { Grid123456789,
    HeightString(<<1, 1, 1, 1, 1, 1, 1, 1, 1>>),
    HeightString(<<1, 1, 1, 1, 2, 1, 1, 1, 1>>),
    HeightString(<<2, 1, 1, 1, 1, 1, 1, 1, 1>>) }

InitPair ==
  /\ grid = IdleGrid
  /\ edges = NoEdges
  /\ call = [op |-> "none"]
  /\ cfgA \in [id : {<<"A">>}, heights : PairGrids, rotation : Rotations]
  /\ cfgB \in [id : {<<"B">>}, heights : PairGrids, rotation : Rotations]
  /\ query = [op |-> "none"]
  /\ IdleIds
  /\ IdleWFC
  /\ IdleRefs
  /\ IdleScene

\* the first configuration is the source, both are available
FindValidAdjacentsOfPair ==
  /\ query.op = "none"
  /\ \E direction \in Directions :
       query' = [op |-> "findValidAdjacents", direction |-> direction,
                 ret |-> findValidAdjacents(cfgA, direction, <<cfgB, cfgA>>)]
  /\ UNCHANGED <<edgeVars, cfgA, cfgB, idVars, wfcVars, refVars, sceneVars>>

\* the first configuration is placed on a cell next to the origin, both are candidates
GetValidBlocksOfPair ==
  /\ query.op = "none"
  /\ \E n \in DOMAIN neighborsOf(Origin) :
       LET neighbor == neighborsOf(Origin)[n]
           placedBlocks == mapSet(EmptyMap, neighborKeyOf(neighbor.pos), cfgA)
       IN  query' = [op |-> "getValidBlocks", neighbor |-> neighbor,
                     ret |-> getValidBlocks(Origin, placedBlocks, <<cfgB, cfgA>>)]
  /\ UNCHANGED <<edgeVars, cfgA, cfgB, idVars, wfcVars, refVars, sceneVars>>

NextPair == CanBeAdjacent \/ FindValidAdjacentsOfPair \/ GetValidBlocksOfPair

SpecPair == InitPair /\ [][NextPair]_vars

(***************************************************************************)
(* Specification of the cache construction.                                *)
(***************************************************************************)
\* the catalog entries: two identifiers, three grids, and the absent, a
\* zero-angle and two quarter-turn rotations
CatalogBlocks ==
  [ id : {<<"a">>, <<"b">>},
    heights : { HeightString(<<1, 1, 1, 1, 1, 1, 1, 1, 1>>),
                HeightString(<<2, 1, 1, 1, 1, 1, 1, 1, 1>>),
                Grid123456789 },
    rotation : { NoRotation, [axis |-> "x", angle |-> 0], [axis |-> "z", angle |-> 90],
                 [axis |-> "y", angle |-> 180] } ]

InitCache ==
  /\ grid = IdleGrid
  /\ edges = NoEdges
  /\ call = [op |-> "none"]
  /\ cfgA = IdleBlock
  /\ cfgB = IdleBlock
  /\ query = [op |-> "none"]
  /\ IdleIds
  /\ IdleWFC
  /\ IdleRefs
  /\ IdleScene

\* new WaveFunctionCollapse(blocks)
Construct ==
  \E blocks \in SeqsUpTo(CatalogBlocks, MaxCatalog) :
    /\ wq.op = "none"
    /\ wfc' = constructor(blocks)
    /\ wq' = [op |-> "constructor"]
    /\ UNCHANGED <<edgeVars, matchVars, idVars, placed, candidates, refVars, sceneVars>>

NextCache == Construct

SpecCache == InitCache /\ [][NextCache]_vars

(***************************************************************************)
(* Specification of the edge pipeline on references.                       *)
(***************************************************************************)
InitRefs ==
  /\ grid = IdleGrid
  /\ edges = NoEdges
  /\ call = [op |-> "none"]
  /\ cfgA = IdleBlock
  /\ cfgB = IdleBlock
  /\ query = [op |-> "none"]
  /\ IdleIds
  /\ IdleWFC
  /\ heap = EmptyHeap
  /\ heldBlock \in [id : {<<"A">>}, heights : ExampleGrids, rotation : Rotations]
  /\ refcall = [op |-> "none"]
  /\ IdleScene

ExtractEdgesRefs ==
  /\ Len(heap.objects) < MaxEdgeSets
  /\ LET r == extractEdgesRefs(heap, heldBlock.heights)
     IN  /\ heap' = r.heap
         /\ refcall' = [op |-> "extractEdges", ret |-> r.ref, before |-> heap, block |-> heldBlock]
  /\ UNCHANGED <<edgeVars, matchVars, idVars, wfcVars, heldBlock, sceneVars>>

\* rotateEdges on an edge object allocated earlier, the result of a rotation included
RotateEdgesRefs ==
  \E e \in DOMAIN heap.objects, axis \in AxisStrings, angle \in BlockAngles :
    /\ Len(heap.objects) < MaxEdgeSets
    /\ LET r == rotateEdgesRefs(heap, e, axis, angle)
       IN  /\ heap' = r.heap
           /\ refcall' = [op |-> "rotateEdges", edges |-> e, axis |-> axis, angle |-> angle,
                          ret |-> r.ref, before |-> heap, block |-> heldBlock]
    /\ UNCHANGED <<edgeVars, matchVars, idVars, wfcVars, heldBlock, sceneVars>>

GetEffectiveEdgesRefs ==
  /\ Len(heap.objects) + 2 <= MaxEdgeSets
  /\ LET r == getEffectiveEdgesRefs(heap, heldBlock)
     IN  /\ heap' = r.heap
         /\ heldBlock' = r.block
         /\ refcall' = [op |-> "getEffectiveEdges", ret |-> r.ref, before |-> heap,
                        block |-> heldBlock]
  /\ UNCHANGED <<edgeVars, matchVars, idVars, wfcVars, sceneVars>>

NextRefs == ExtractEdgesRefs \/ RotateEdgesRefs \/ GetEffectiveEdgesRefs

SpecRefs == InitRefs /\ [][NextRefs]_vars

(***************************************************************************)
(* Specification of the constrained sculpting.                             *)
(***************************************************************************)
\* the grid of the usage example, the example grid of the edge matcher and
\* the uniform grids of the heights 0..5
Grid555355135 == HeightString(<<5, 5, 5, 3, 5, 5, 1, 3, 5>>)
SculptGrids ==
  {Grid555355135, Grid123456789}
  \cup {HeightString([i \in 1..9 |-> h]) : h \in 0..MaxPointHeight}

\* the blocks array after n createBlock calls: the entities are 1..n
StartHeights(n) == [1..n -> SculptGrids]

InitSculpt ==
  /\ grid = IdleGrid
  /\ edges = NoEdges
  /\ call = [op |-> "none"]
  /\ cfgA = IdleBlock
  /\ cfgB = IdleBlock
  /\ query = [op |-> "none"]
  /\ IdleIds
  /\ IdleWFC
  /\ IdleRefs
  /\ \E n \in 1..MaxSceneBlocks :
       \E hs \in StartHeights(n) :
         /\ sceneBlocks = [i \in 1..n |-> [entity |-> i, heights |-> hs[i]]]
         /\ nextEntity = n + 1
  /\ selectedBlockIndex = 0 - 1
  /\ selectedCorner = 1
  /\ registeredBlocks = {}
  /\ handlers = EmptyMap
  /\ pressed = 0
  /\ event = [op |-> "none"]

\* the block indices and points a caller passes, out-of-range ones included
CallIndices == (0 - 1)..MaxSceneBlocks
CallPoints == 0..6

SculptRaise ==
  \E blockIndex \in CallIndices, point \in CallPoints :
    LET r == sculptRaiseWithConstraints(sceneBlocks, blockIndex, point)
    IN  /\ event.op = "none"
        /\ sceneBlocks' = r.blocks
        /\ event' = [op |-> "sculptRaise", blockIndex |-> blockIndex, point |-> point,
                     ret |-> r.ret, before |-> sceneBlocks]

SculptLower ==
  \E blockIndex \in CallIndices, point \in CallPoints :
    LET r == sculptLowerWithConstraints(sceneBlocks, blockIndex, point)
    IN  /\ event.op = "none"
        /\ sceneBlocks' = r.blocks
        /\ event' = [op |-> "sculptLower", blockIndex |-> blockIndex, point |-> point,
                     ret |-> r.ret, before |-> sceneBlocks]

SculptCornerUp ==
  \E blockIndex \in CallIndices, corner \in CallPoints :
    LET r == sculptCornerUp(sceneBlocks, blockIndex, corner)
    IN  /\ event.op = "none"
        /\ sceneBlocks' = r.blocks
        /\ event' = [op |-> "sculptCornerUp", blockIndex |-> blockIndex, point |-> corner,
                     ret |-> r.ret, before |-> sceneBlocks]

SculptCornerDown ==
  \E blockIndex \in CallIndices, corner \in CallPoints :
    LET r == sculptCornerDown(sceneBlocks, blockIndex, corner)
    IN  /\ event.op = "none"
        /\ sceneBlocks' = r.blocks
        /\ event' = [op |-> "sculptCornerDown", blockIndex |-> blockIndex, point |-> corner,
                     ret |-> r.ret, before |-> sceneBlocks]

SculptCenterUp ==
  \E blockIndex \in CallIndices :
    LET r == sculptCenterUp(sceneBlocks, blockIndex)
    IN  /\ event.op = "none"
        /\ sceneBlocks' = r.blocks
        /\ event' = [op |-> "sculptCenterUp", blockIndex |-> blockIndex, point |-> 5,
                     ret |-> r.ret, before |-> sceneBlocks]

SculptCenterDown ==
  \E blockIndex \in CallIndices :
    LET r == sculptCenterDown(sceneBlocks, blockIndex)
    IN  /\ event.op = "none"
        /\ sceneBlocks' = r.blocks
        /\ event' = [op |-> "sculptCenterDown", blockIndex |-> blockIndex, point |-> 5,
                     ret |-> r.ret, before |-> sceneBlocks]

SculptFrame ==
  UNCHANGED <<edgeVars, matchVars, idVars, wfcVars, refVars, selectedBlockIndex, selectedCorner,
              registeredBlocks, handlers, nextEntity, pressed>>

NextSculpt ==
  \/ SculptRaise /\ SculptFrame
  \/ SculptLower /\ SculptFrame
  \/ SculptCornerUp /\ SculptFrame
  \/ SculptCornerDown /\ SculptFrame
  \/ SculptCenterUp /\ SculptFrame
  \/ SculptCenterDown /\ SculptFrame

SpecSculpt == InitSculpt /\ [][NextSculpt]_vars

(***************************************************************************)
(* Specification of the 4-corner scene: blocks are created and removed,    *)
(* the interaction system registers click handlers, the player clicks      *)
(* blocks and presses keys.  The last event keeps the blocks before it and *)
(* the entity of the last click (0 before any click).                      *)
(***************************************************************************)
Heights2222 == HeightString(<<2, 2, 2, 2>>)
Heights2220 == HeightString(<<2, 2, 2, 0>>)
\* the heights passed to createBlock, an invalid one included
CreateHeights == {Heights2222, Heights2220}

InitScene ==
  /\ grid = IdleGrid
  /\ edges = NoEdges
  /\ call = [op |-> "none"]
  /\ cfgA = IdleBlock
  /\ cfgB = IdleBlock
  /\ query = [op |-> "none"]
  /\ IdleIds
  /\ IdleWFC
  /\ IdleRefs
  /\ sceneBlocks = <<>>
  /\ selectedBlockIndex = 0 - 1
  /\ selectedCorner = 1
  /\ registeredBlocks = {}
  /\ handlers = EmptyMap
  /\ nextEntity = 1
  /\ pressed = 0
  /\ event = [op |-> "none", clicked |-> 0]

SceneFrame == UNCHANGED <<edgeVars, matchVars, idVars, wfcVars, refVars>>

CreateBlock ==
  \E heights \in CreateHeights :
    /\ Len(sceneBlocks) < MaxSceneBlocks
    /\ nextEntity <= MaxEntities
    /\ IF validCornerHeights(heights)
       THEN /\ sceneBlocks' = Append(sceneBlocks, [entity |-> nextEntity, heights |-> heights])
            /\ nextEntity' = nextEntity + 1
            /\ event' = [op |-> "createBlock", outcome |-> "returned", before |-> sceneBlocks,
                         clicked |-> event.clicked]
       ELSE /\ UNCHANGED <<sceneBlocks, nextEntity>>
            /\ event' = [op |-> "createBlock", outcome |-> "threw", before |-> sceneBlocks,
                         clicked |-> event.clicked]
    /\ UNCHANGED <<selectedBlockIndex, selectedCorner, registeredBlocks, handlers, pressed>>

RemoveBlock ==
  \E blockIndex \in CallIndices :
    LET r == removeBlock(sceneBlocks, blockIndex)
    IN  /\ sceneBlocks' = r.blocks
        /\ event' = [op |-> "removeBlock", blockIndex |-> blockIndex, ret |-> r.ret,
                     before |-> sceneBlocks, clicked |-> event.clicked]
        /\ UNCHANGED <<selectedBlockIndex, selectedCorner, registeredBlocks, handlers,
                       nextEntity, pressed>>

RegistrationTick ==
  /\ handlers' = registerFrom(sceneBlocks, 0, handlers)
  /\ registeredBlocks' = registeredBlocks \cup {sceneBlocks[k].entity : k \in DOMAIN sceneBlocks}
  /\ event' = [op |-> "tick", before |-> sceneBlocks, clicked |-> event.clicked]
  /\ UNCHANGED <<sceneBlocks, selectedBlockIndex, selectedCorner, nextEntity, pressed>>

\* a pointer click on a block of the scene whose handler is registered
Click ==
  \E k \in DOMAIN sceneBlocks :
    LET entity == sceneBlocks[k].entity
    IN  /\ entity \in registeredBlocks
        /\ selectedBlockIndex' = handlers[entity]
        /\ event' = [op |-> "click", entity |-> entity, before |-> sceneBlocks,
                     clicked |-> entity]
        /\ UNCHANGED <<sceneBlocks, selectedCorner, registeredBlocks, handlers, nextEntity,
                       pressed>>

SelectCorner ==
  \E corner \in 1..4 :
    /\ selectedCorner' = corner
    /\ event' = [op |-> "selectCorner", before |-> sceneBlocks, clicked |-> event.clicked]
    /\ UNCHANGED <<sceneBlocks, selectedBlockIndex, registeredBlocks, handlers, nextEntity,
                   pressed>>

PressRaise ==
  LET r == sculptCornerUp4(sceneBlocks, selectedBlockIndex, selectedCorner)
  IN  /\ pressed < MaxPresses
      /\ pressed' = pressed + 1
      /\ sceneBlocks' = IF selectedBlockIndex # 0 - 1 THEN r.blocks ELSE sceneBlocks
      /\ event' = [op |-> "raise", before |-> sceneBlocks, clicked |-> event.clicked]
      /\ UNCHANGED <<selectedBlockIndex, selectedCorner, registeredBlocks, handlers, nextEntity>>

PressLower ==
  LET r == sculptCornerDown4(sceneBlocks, selectedBlockIndex, selectedCorner)
  IN  /\ pressed < MaxPresses
      /\ pressed' = pressed + 1
      /\ sceneBlocks' = IF selectedBlockIndex # 0 - 1 THEN r.blocks ELSE sceneBlocks
      /\ event' = [op |-> "lower", before |-> sceneBlocks, clicked |-> event.clicked]
      /\ UNCHANGED <<selectedBlockIndex, selectedCorner, registeredBlocks, handlers, nextEntity>>

NextScene ==
  \/ CreateBlock /\ SceneFrame
  \/ RemoveBlock /\ SceneFrame
  \/ RegistrationTick /\ SceneFrame
  \/ Click /\ SceneFrame
  \/ SelectCorner /\ SceneFrame
  \/ PressRaise /\ SceneFrame
  \/ PressLower /\ SceneFrame

SpecScene == InitScene /\ [][NextScene]_vars

(***************************************************************************)
(* Properties.                                                             *)
(***************************************************************************)
\* the value of cell i (zero-based) of a height string
Cell(g, i) == Number(g[i + 1])

\* the side opposite to a direction
OppositeSide(d) ==
  CASE d = "north" -> "south"
    [] d = "south" -> "north"
    [] d = "east"  -> "west"
    [] d = "west"  -> "east"

\* C1: extractEdges(G) returns north=[G0,G1,G2], east=[G2,G5,G8],
\* south=[G8,G7,G6], west=[G6,G3,G0]; "123456789" gives [1,2,3], [3,6,9],
\* [9,8,7], [7,4,1].
C1_ExtractEdgesLayout ==
  (call.op = "extractEdges" /\ Len(grid) = 9) =>
    /\ edges.north = <<Cell(grid, 0), Cell(grid, 1), Cell(grid, 2)>>
    /\ edges.east  = <<Cell(grid, 2), Cell(grid, 5), Cell(grid, 8)>>
    /\ edges.south = <<Cell(grid, 8), Cell(grid, 7), Cell(grid, 6)>>
    /\ edges.west  = <<Cell(grid, 6), Cell(grid, 3), Cell(grid, 0)>>
    /\ grid = Grid123456789 =>
         edges = [north |-> <<1, 2, 3>>, east |-> <<3, 6, 9>>,
                  south |-> <<9, 8, 7>>, west |-> <<7, 4, 1>>]

C1_Witness ==
  /\ call.op = "extractEdges"
  /\ grid = Grid123456789
  /\ edges.south = <<9, 8, 7>>

\* C17: extractEdges fails with an InvalidGridError when the height grid does
\* not have exactly 9 values; it never returns an edge set built from missing
\* cells.
C17_InvalidGridRejected ==
  (call.op = "extractEdges" /\ Len(grid) # 9) => call.outcome = "InvalidGridError"

\* C16: rotateEdges with a non-zero angle and an axis other than x, y or z
\* fails with an InvalidAxisError; it never returns the unrotated edges.
C16_InvalidAxisRejected ==
  (call.op = "rotateEdges" /\ call.axis \notin Axes /\ call.angle # 0) =>
    call.outcome = "InvalidAxisError"

\* C2: for unrotated A and B, canBeAdjacent(A,B,south) is true exactly when
\* A's bottom row equals B's top row column by column, and
\* canBeAdjacent(A,B,east) exactly when A's right column equals B's left
\* column row by row.
C2_PhysicalAlignment ==
  (query.op = "canBeAdjacent" /\ cfgA.rotation = NoRotation /\ cfgB.rotation = NoRotation) =>
    LET A == cfgA.heights
        B == cfgB.heights
    IN  /\ query.direction = "south" =>
             (query.ret <=> /\ Cell(A, 6) = Cell(B, 0)
                            /\ Cell(A, 7) = Cell(B, 1)
                            /\ Cell(A, 8) = Cell(B, 2))
        /\ query.direction = "east" =>
             (query.ret <=> /\ Cell(A, 2) = Cell(B, 0)
                            /\ Cell(A, 5) = Cell(B, 3)
                            /\ Cell(A, 8) = Cell(B, 6))

\* C3: canBeAdjacent(A,B,d) is true iff the effective edge of A on side d and
\* the effective edge of B on the opposite side have equal length and equal
\* elements; A="123456789", B="999999999", d=east gives false.
C3_OppositeEdgesEqual ==
  query.op = "canBeAdjacent" =>
    LET edgeA == getEffectiveEdges(cfgA)[query.direction]
        edgeB == getEffectiveEdges(cfgB)[OppositeSide(query.direction)]
    IN  /\ query.ret <=> (edgeA = edgeB)
        /\ ( /\ cfgA = [id |-> <<"A">>, heights |-> Grid123456789, rotation |-> NoRotation]
             /\ cfgB = [id |-> <<"B">>, heights |-> Grid999999999, rotation |-> NoRotation]
             /\ query.direction = "east" ) => query.ret = FALSE

C3_Witness ==
  /\ query.op = "canBeAdjacent"
  /\ query.direction = "east"
  /\ query.ret
  /\ cfgA.rotation = [axis |-> "z", angle |-> 90]
  /\ cfgB.rotation = NoRotation
  /\ getEffectiveEdges(cfgA).east = <<2, 1, 1>>

\* C4: canBeAdjacent(A,B,d) = canBeAdjacent(B,A,opposite(d)) for all blocks,
\* rotations and directions.
C4_SwapSymmetry ==
  query.op = "canBeAdjacent" =>
    query.ret = canBeAdjacent(cfgB, cfgA, OppositeSide(query.direction))

C4_Witness ==
  /\ query.op = "canBeAdjacent"
  /\ query.direction = "west"
  /\ query.ret
  /\ cfgA.heights # cfgB.heights
  /\ cfgB.rotation # NoRotation

\* C5: rotateEdges(e, axis, a) depends only on a modulo 360, negative angles
\* included: rotateEdges(e, axis, -90) = rotateEdges(e, axis, 270).
C5_AngleModulo360 ==
  call.op = "rotateEdges" =>
    edges = rotateEdges(call.arg, call.axis, call.angle % 360)

\* one quarter turn about z as the documentation states it
ZQuarterTurn(e) ==
  [north |-> Reverse(e.west), east |-> e.north, south |-> Reverse(e.east), west |-> e.south]

RECURSIVE ZQuarterTurns(_, _)
ZQuarterTurns(e, k) == IF k = 0 THEN e ELSE ZQuarterTurns(ZQuarterTurn(e), k - 1)

\* C6: one z step maps (N,E,S,W) to (reverse(W), N, reverse(E), S), and
\* rotateEdges(e,'z',90*k) for k in 0..3 is that step applied k times.
C6_ZStepIterated ==
  (call.op = "rotateEdges" /\ call.axis = "z" /\ call.angle \in {0, 90, 180, 270}) =>
    edges = ZQuarterTurns(call.arg, call.angle \div 90)

C6_Witness ==
  /\ call.op = "rotateEdges"
  /\ call.axis = "z"
  /\ call.angle = 270
  /\ call.arg = extractEdges(Grid123456789)
  /\ edges # call.arg

\* C7: one y step maps (N,E,S,W) to (reverse(S), reverse(E), reverse(N),
\* reverse(W)), one x step to (reverse(N), reverse(W), reverse(S), reverse(E)).
C7_YAndXStep ==
  (call.op = "rotateEdges" /\ call.angle = 90) =>
    LET e == call.arg
    IN  /\ call.axis = "y" =>
             edges = [north |-> Reverse(e.south), east |-> Reverse(e.east),
                      south |-> Reverse(e.north), west |-> Reverse(e.west)]
        /\ call.axis = "x" =>
             edges = [north |-> Reverse(e.north), east |-> Reverse(e.west),
                      south |-> Reverse(e.south), west |-> Reverse(e.east)]

C7_Witness ==
  /\ call.op = "rotateEdges"
  /\ call.axis = "y"
  /\ call.angle = 90
  /\ edges.east # call.arg.east
  /\ edges.north # call.arg.south

\* C8: rotateEdges(rotateEdges(e, axis, 90), axis, 270) = e for axis in
\* {x,y,z}.
C8_QuarterThenThreeQuarters ==
  (call.op = "rotateEdges" /\ call.axis \in Axes /\ call.angle = 90) =>
    rotateEdges(edges, call.axis, 270) = call.arg

C8_Witness ==
  /\ call.op = "rotateEdges"
  /\ call.axis = "z"
  /\ call.angle = 90
  /\ edges # call.arg
  /\ rotateEdges(edges, "z", 270) # edges

\* C9: the 90-degree z rotation applied four times in a row returns the
\* original edge set.
C9_FourZQuarterTurns ==
  (call.op = "rotateEdges" /\ call.axis = "z" /\ call.angle = 90) =>
    rotateEdges(rotateEdges(rotateEdges(edges, "z", 90), "z", 90), "z", 90) = call.arg

C9_Witness ==
  /\ call.op = "rotateEdges"
  /\ call.axis = "z"
  /\ call.angle = 90
  /\ call.arg = extractEdges(Grid123456789)
  /\ rotateEdges(rotateEdges(edges, "z", 90), "z", 90) # call.arg

\* C10: rotateEdges(e, axis, 0) = e for every axis, and getEffectiveEdges of
\* a block with rotation angle 0 equals getEffectiveEdges of the block with no
\* rotation, both equal to extractEdges of its grid.
C10_ZeroRotationIdentity ==
  query.op = "getEffectiveEdges" =>
    /\ \A axis \in AxisStrings : rotateEdges(query.ret, axis, 0) = query.ret
    /\ (cfgA.rotation = NoRotation \/ cfgA.rotation.angle = 0) =>
         /\ query.ret = extractEdges(cfgA.heights)
         /\ query.ret = getEffectiveEdges([cfgA EXCEPT !.rotation = NoRotation])
         /\ \A axis \in Axes :
              query.ret = getEffectiveEdges([cfgA EXCEPT !.rotation = [axis |-> axis, angle |-> 0]])

C10_Witness ==
  /\ query.op = "getEffectiveEdges"
  /\ cfgA.rotation # NoRotation
  /\ cfgA.rotation.angle = 0
  /\ cfgA.heights = Grid123456789
  /\ query.ret.west = <<7, 4, 1>>
\* the number of separators in an identifier
SeparatorCount(id) == Cardinality({k \in DOMAIN id : id[k] = "_"})

\* the rotation an identifier round trip is expected to give back: a zero
\* angle is encoded like an absent rotation
DecodedRotation(rotation) ==
  IF rotation = NoRotation \/ rotation.angle = 0 THEN NoRotation ELSE rotation

\* C15 as stated: parseRotatedBlockId(getRotatedBlockId(baseId, rotation)) =
\* (baseId, rotation) for every baseId without '_' and every rotation with
\* axis in {x,y,z} and angle in {0,90,180,270}, and (baseId, no rotation) for
\* an absent rotation.
C15_RoundTripAsStated ==
  ( /\ idcall.op = "parseRotatedBlockId"
    /\ idcall.arg = getRotatedBlockId(ident.baseId, ident.rotation)
    /\ SeparatorCount(ident.baseId) = 0 ) =>
    idcall.ret = [baseId |-> ident.baseId, rotation |-> ident.rotation]

\* C15 amended: the round trip gives (baseId, rotation) for angles 90, 180
\* and 270, and (baseId, no rotation) for an absent rotation and for angle 0.
C15_RoundTrip ==
  ( /\ idcall.op = "parseRotatedBlockId"
    /\ idcall.arg = getRotatedBlockId(ident.baseId, ident.rotation)
    /\ SeparatorCount(ident.baseId) = 0 ) =>
    idcall.ret = [baseId |-> ident.baseId, rotation |-> DecodedRotation(ident.rotation)]

C15_Witness ==
  /\ idcall.op = "parseRotatedBlockId"
  /\ ident = [baseId |-> <<"a", "a">>, rotation |-> [axis |-> "y", angle |-> 270]]
  /\ idcall.arg = <<"a", "a", "_", "y", "2", "7", "0">>
  /\ idcall.ret.rotation = [axis |-> "y", angle |-> 270]

\* a composite identifier is malformed: more than one separator, an axis
\* letter outside {x,y,z} or an angle that is not a decimal number
MalformedId(id) ==
  \/ SeparatorCount(id) > 1
  \/ /\ SeparatorCount(id) = 1
     /\ LET k == CHOOSE j \in DOMAIN id : id[j] = "_"
            part == SubSeq(id, k + 1, Len(id))
        IN  \/ part = <<>>
            \/ part[1] \notin Axes
            \/ Len(part) = 1
            \/ \E i \in 2..Len(part) : part[i] \notin DOMAIN digitValues

\* C18: parseRotatedBlockId fails with an InvalidIdError on a malformed
\* composite identifier; it never returns a parsed result for such input.
C18_MalformedIdRejected ==
  (idcall.op = "parseRotatedBlockId" /\ MalformedId(idcall.arg)) =>
    idcall.outcome = "InvalidIdError"

\* the cell next to a position on side d
NeighbourCell(position, d) ==
  CASE d = "north" -> [x |-> position.x, y |-> position.y - 1]
    [] d = "south" -> [x |-> position.x, y |-> position.y + 1]
    [] d = "east"  -> [x |-> position.x + 1, y |-> position.y]
    [] d = "west"  -> [x |-> position.x - 1, y |-> position.y]

\* the sides of a position whose neighbour cell has an entry in the map
PresentNeighbours(position, placedBlocks) ==
  {d \in Directions : neighborKeyOf(NeighbourCell(position, d)) \in DOMAIN placedBlocks}

\* every present neighbour accepts the candidate on its side facing the position
Accepted(position, placedBlocks, candidate) ==
  \A d \in PresentNeighbours(position, placedBlocks) :
    canBeAdjacent(placedBlocks[neighborKeyOf(NeighbourCell(position, d))], candidate,
                  OppositeSide(d))

\* C11: getValidBlocks(position, placed, candidates) keeps a candidate iff
\* every cardinal neighbour cell with an entry in placed (north = (x, y-1),
\* south = (x, y+1), east = (x+1, y), west = (x-1, y)) accepts it on its side
\* facing position: canBeAdjacent(neighbour, candidate, opposite direction);
\* with no placed neighbour every candidate is kept.
C11_ValidBlocksByNeighbours ==
  wq.op = "getValidBlocks" =>
    /\ \A i \in DOMAIN candidates :
         (\E j \in DOMAIN wq.ret : wq.ret[j] = candidates[i])
           <=> Accepted(wq.position, placed, candidates[i])
    /\ PresentNeighbours(wq.position, placed) = {} => wq.ret = candidates

\* one block placed north of the origin, a matching and a non-matching
\* candidate, and exactly the matching one returned
C11_Witness ==
  /\ wq.op = "getValidBlocks"
  /\ wq.position = Origin
  /\ DOMAIN placed = {<<"0", ",", "-", "1">>}
  /\ placed[<<"0", ",", "-", "1">>] = BlockAFlat
  /\ candidates = <<BlockA, BlockAFlat>>
  /\ wq.ret = <<BlockAFlat>>

RECURSIVE IsSubsequence(_, _)
IsSubsequence(sub, full) ==
  IF sub = <<>> THEN TRUE
  ELSE IF full = <<>> THEN FALSE
  ELSE IF Head(sub) = Head(full) THEN IsSubsequence(Tail(sub), Tail(full))
  ELSE IsSubsequence(sub, Tail(full))

Occurrences(b, list) == Cardinality({i \in DOMAIN list : list[i] = b})

\* C12: the result of getValidBlocks is a subsequence of the candidate list:
\* only input candidates, each kept candidate once per occurrence, in the
\* relative order of the input.
C12_ResultIsSubsequence ==
  wq.op = "getValidBlocks" =>
    /\ IsSubsequence(wq.ret, candidates)
    /\ \A j \in DOMAIN wq.ret :
         Occurrences(wq.ret[j], wq.ret) = Occurrences(wq.ret[j], candidates)

\* two different candidates kept next to a placed block
C12_Witness ==
  /\ wq.op = "getValidBlocks"
  /\ PresentNeighbours(wq.position, placed) # {}
  /\ Len(wq.ret) = 2
  /\ wq.ret[1] # wq.ret[2]
  /\ wq.ret = candidates

CompositeKey(block) == getRotatedBlockId(block.id, block.rotation)

\* the last catalog entry that carries a composite key
LastWithKey(catalog, key) ==
  LET last == CHOOSE i \in DOMAIN catalog :
                /\ CompositeKey(catalog[i]) = key
                /\ \A j \in DOMAIN catalog : CompositeKey(catalog[j]) = key => j <= i
  IN  catalog[last]

KeysDistinct(catalog) ==
  \A i, j \in DOMAIN catalog : CompositeKey(catalog[i]) = CompositeKey(catalog[j]) => i = j

\* the cache has an entry for (A, d, B), and it holds the value v
CacheHolds(cache, A, d, B, v) ==
  /\ CompositeKey(A) \in DOMAIN cache
  /\ cacheKeyOf(d, CompositeKey(B)) \in DOMAIN cache[CompositeKey(A)]
  /\ cache[CompositeKey(A)][cacheKeyOf(d, CompositeKey(B))] = v

\* C13 as stated: for every pair of catalog entries (A,B) and every direction
\* d the cache holds, under A's composite key and the entry (d, B's composite
\* key), exactly canBeAdjacent(A,B,d).
C13_CacheAsStated ==
  wq.op = "constructor" =>
  \A i, j \in DOMAIN wfc.blockDatabase, d \in Directions :
    CacheHolds(wfc.adjacencyCache, wfc.blockDatabase[i], d, wfc.blockDatabase[j],
               canBeAdjacent(wfc.blockDatabase[i], wfc.blockDatabase[j], d))

\* C13: the cache built from a catalog holds, for every pair of entries (A,B)
\* and every direction d, the value of canBeAdjacent on the last entries that
\* carry A's and B's composite keys; when the composite keys of the catalog
\* are pairwise distinct this is canBeAdjacent(A,B,d). The cache has no
\* other rows and no other entries.
C13_CacheOfCatalog ==
  LET catalog == wfc.blockDatabase
      cache == wfc.adjacencyCache
  IN  wq.op = "constructor" =>
      /\ \A i, j \in DOMAIN catalog, d \in Directions :
           /\ CacheHolds(cache, catalog[i], d, catalog[j],
                         canBeAdjacent(LastWithKey(catalog, CompositeKey(catalog[i])),
                                       LastWithKey(catalog, CompositeKey(catalog[j])), d))
           /\ KeysDistinct(catalog) =>
                CacheHolds(cache, catalog[i], d, catalog[j],
                           canBeAdjacent(catalog[i], catalog[j], d))
      /\ DOMAIN cache = {CompositeKey(catalog[i]) : i \in DOMAIN catalog}
      /\ \A keyA \in DOMAIN cache :
           DOMAIN cache[keyA] =
             {cacheKeyOf(d, CompositeKey(catalog[j])) : d \in Directions, j \in DOMAIN catalog}

\* a catalog of two entries with distinct keys, with a compatible and an
\* incompatible pair in the cache
C13_Witness ==
  /\ wq.op = "constructor"
  /\ wfc.blockDatabase = <<BlockA, BlockB>>
  /\ wfc.adjacencyCache[<<"a">>][<<"s", "o", "u", "t", "h", ":", "b", "_", "z", "9", "0">>]
       = canBeAdjacent(BlockA, BlockB, "south")
  /\ \E d1, d2 \in Directions :
       /\ canBeAdjacent(BlockA, BlockB, d1)
       /\ ~canBeAdjacent(BlockA, BlockB, d2)

\* the blocks a getValidBlocks call compares: the present neighbours and the candidates
ComparedBlocks(position, placedBlocks, allPossibleBlocks) ==
  {placedBlocks[neighborKeyOf(NeighbourCell(position, d))] :
     d \in PresentNeighbours(position, placedBlocks)}
  \cup {allPossibleBlocks[i] : i \in DOMAIN allPossibleBlocks}

\* C14: a compatibility query whose block key was not part of the catalog
\* the cache was built from fails with a CacheMissError, getValidBlocks with
\* a placed neighbour or a candidate outside the catalog included.
C14_CacheMissSurfaced ==
  ( /\ wq.op = "getValidBlocks"
    /\ PresentNeighbours(wq.position, placed) # {}
    /\ candidates # <<>>
    /\ \E b \in ComparedBlocks(wq.position, placed, candidates) :
         CompositeKey(b) \notin DOMAIN wfc.adjacencyCache ) =>
    wq.outcome = "CacheMissError"

C20_InputsUnmodified ==
  /\ refcall.op = "rotateEdges" =>
       /\ Deref(heap, refcall.edges) = Deref(refcall.before, refcall.edges)
       /\ heldBlock = refcall.block
  /\ refcall.op = "getEffectiveEdges" =>
       /\ heldBlock = refcall.block
       /\ \A e \in DOMAIN refcall.before.objects : Deref(heap, e) = Deref(refcall.before, e)

\* a quarter turn about z of the edges of "123456789": the returned object
\* holds the rotated values and shares its east array with the input's north
C20_Witness ==
  /\ refcall.op = "rotateEdges"
  /\ refcall.axis = "z"
  /\ refcall.angle = 90
  /\ Deref(refcall.before, refcall.edges) = extractEdges(Grid123456789)
  /\ Deref(heap, refcall.ret) = rotateEdges(extractEdges(Grid123456789), "z", 90)
  /\ Deref(heap, refcall.ret) # Deref(heap, refcall.edges)
  /\ heap.objects[refcall.ret].east = heap.objects[refcall.edges].north

\* the four corner values of an edge set agree between adjacent edges
SharedCorners(e) ==
  /\ e.north[1] = e.west[3]
  /\ e.north[3] = e.east[1]
  /\ e.east[3] = e.south[1]
  /\ e.south[3] = e.west[1]

\* C21: for every 9-cell grid G, each edge of extractEdges(G) has length 3
\* and adjacent edges share their corner value: north[0]=west[2],
\* north[2]=east[0], east[2]=south[0], south[2]=west[0].
C21_EdgeLengthsAndCorners ==
  (call.op = "extractEdges" /\ Len(grid) = 9) =>
    /\ \A d \in Directions : Len(edges[d]) = 3
    /\ SharedCorners(edges)

\* the grid with its north-east corner raised
C21_Witness ==
  /\ call.op = "extractEdges"
  /\ grid = HeightString(<<1, 1, 2, 1, 1, 1, 1, 1, 1>>)
  /\ edges.north[3] = 2
  /\ edges.east[1] = 2

\* all nine cells of a grid hold the height h
Uniform(g, h) == Len(g) = 9 /\ \A i \in 0..8 : Cell(g, i) = h

\* C22: for a grid whose nine cells all hold the same height h,
\* getEffectiveEdges returns [h,h,h] on all four sides for every axis in
\* {x,y,z} and every angle in {0,90,180,270}.
C22_UniformGridInvariant ==
  \A h \in 0..9 :
    (query.op = "getEffectiveEdges" /\ Uniform(cfgA.heights, h)) =>
      \A d \in Directions : query.ret[d] = <<h, h, h>>

C22_Witness ==
  /\ query.op = "getEffectiveEdges"
  /\ cfgA.heights = Grid555555555
  /\ cfgA.rotation = [axis |-> "y", angle |-> 270]
  /\ query.ret = [north |-> <<5, 5, 5>>, east |-> <<5, 5, 5>>,
                  south |-> <<5, 5, 5>>, west |-> <<5, 5, 5>>]

\* a 9-cell grid turned by a quarter turn: the cell of row r, column c comes
\* from row 2-c, column r (clockwise) or from row c, column 2-r (counter-clockwise)
TurnedClockwise(g) ==
  [i \in 1..9 |-> LET r == (i - 1) \div 3
                      c == (i - 1) % 3
                  IN  g[3 * (2 - c) + r + 1]]
TurnedCounterClockwise(g) ==
  [i \in 1..9 |-> LET r == (i - 1) \div 3
                      c == (i - 1) % 3
                  IN  g[3 * c + (2 - r) + 1]]

\* C23: for every 9-cell grid G, rotateEdges(extractEdges(G), 'z', 90) equals
\* extractEdges(G') where G' is G turned by a quarter turn in one fixed
\* sense; in particular the rotated edge set still satisfies the
\* shared-corner equalities.
C23_EdgeRotationIsGridRotation ==
  ( /\ call.op = "rotateEdges"
    /\ call.axis = "z"
    /\ call.angle = 90
    /\ Len(grid) = 9
    /\ call.arg = extractEdges(grid) ) =>
    /\ \/ edges = extractEdges(TurnedClockwise(grid))
       \/ edges = extractEdges(TurnedCounterClockwise(grid))
    /\ SharedCorners(edges)

\* the blocks of a catalog
CatalogEntries(catalog) == {catalog[i] : i \in DOMAIN catalog}

\* the cache has the entry (keyA, d, keyB) and it is true
CacheSaysCompatible(cache, keyA, d, keyB) ==
  /\ keyA \in DOMAIN cache
  /\ cacheKeyOf(d, keyB) \in DOMAIN cache[keyA]
  /\ cache[keyA][cacheKeyOf(d, keyB)]

\* every present neighbour's cache entry for the candidate is true
AcceptedByCache(cache, position, placedBlocks, candidate) ==
  \A d \in PresentNeighbours(position, placedBlocks) :
    CacheSaysCompatible(cache,
                        CompositeKey(placedBlocks[neighborKeyOf(NeighbourCell(position, d))]),
                        OppositeSide(d), CompositeKey(candidate))

\* C24: when the composite keys of the catalog entries are pairwise distinct
\* and the placed neighbours and candidates are catalog entries,
\* getValidBlocks returns exactly the candidates for which every present
\* neighbour's cache entry (neighbour key, direction opposite to the
\* neighbour's side of position, candidate key) is true.
C24_DirectAgreesWithCache ==
  ( /\ wq.op = "getValidBlocks"
    /\ KeysDistinct(wfc.blockDatabase)
    /\ ComparedBlocks(wq.position, placed, candidates) \subseteq CatalogEntries(wfc.blockDatabase) ) =>
    LET keep(c) == AcceptedByCache(wfc.adjacencyCache, wq.position, placed, c)
    IN  wq.ret = SelectSeq(candidates, keep)

\* a catalog of two keys, a catalog block placed north of the origin, both
\* catalog blocks as candidates and one of them rejected
C24_Witness ==
  /\ wq.op = "getValidBlocks"
  /\ wq.position = Origin
  /\ wfc.blockDatabase = <<BlockAFlat, BlockB>>
  /\ DOMAIN placed = {<<"0", ",", "-", "1">>}
  /\ placed[<<"0", ",", "-", "1">>] = BlockAFlat
  /\ candidates = <<BlockB, BlockAFlat>>
  /\ wq.ret = <<BlockAFlat>>
  /\ ~CacheSaysCompatible(wfc.adjacencyCache, <<"a">>, "south", <<"b", "_", "z", "9", "0">>)

\* a rotation that turns nothing: absent or of angle 0
ZeroOrAbsent(rotation) == rotation = NoRotation \/ rotation.angle = 0

\* C25: for base identifiers without '_' and rotations with axis in {x,y,z}
\* and angle in {0,90,180,270}, two configurations get the same composite key
\* only if they have the same base identifier and the same axis and angle or
\* both a zero or absent rotation; the four variants produced by
\* generateRotationVariants get four different keys.
C25_KeysSeparateVariants ==
  /\ ( /\ idcall.op = "getRotatedBlockId"
       /\ SeparatorCount(cfgA.id) = 0
       /\ SeparatorCount(cfgB.id) = 0
       /\ idcall.retA = idcall.retB ) =>
       /\ cfgA.id = cfgB.id
       /\ \/ cfgA.rotation = cfgB.rotation
          \/ ZeroOrAbsent(cfgA.rotation) /\ ZeroOrAbsent(cfgB.rotation)
       /\ \A g \in Grids :
            getEffectiveEdges([cfgA EXCEPT !.heights = g])
              = getEffectiveEdges([cfgB EXCEPT !.heights = g])
  /\ idcall.op = "generateRotationVariants" =>
       /\ Len(idcall.ret) = 4
       /\ \A i, j \in DOMAIN idcall.ret :
            CompositeKey(idcall.ret[i]) = CompositeKey(idcall.ret[j]) => i = j

\* two spellings of the unrotated block share the key
C25_Witness ==
  /\ idcall.op = "getRotatedBlockId"
  /\ cfgA = [id |-> <<"a">>, heights |-> Grid123456789, rotation |-> NoRotation]
  /\ cfgB = [id |-> <<"a">>, heights |-> Grid123456789, rotation |-> [axis |-> "y", angle |-> 0]]
  /\ idcall.retA = <<"a">>
  /\ idcall.retB = <<"a">>

\* C26: a rotation by 180 degrees about the X axis or about the Y axis leaves
\* every edge set unchanged, so a rotation by 270 degrees about X or Y gives
\* the same edges as a rotation by 90 degrees about the same axis.
C26_HalfTurnXYIdentity ==
  (call.op = "rotateEdges" /\ call.axis \in {"x", "y"}) =>
    /\ call.angle = 180 => edges = call.arg
    /\ call.angle = 270 => edges = rotateEdges(call.arg, call.axis, 90)

\* a half turn about x of the edges of "123456789"
C26_Witness ==
  /\ call.op = "rotateEdges"
  /\ call.axis = "x"
  /\ call.angle = 180
  /\ call.arg = extractEdges(Grid123456789)
  /\ edges = extractEdges(Grid123456789)
  /\ rotateEdges(call.arg, "x", 90) # call.arg

\* the values tried at the centre: the smallest and the largest digit
CentreValues == {0, 9}

\* a block with the value at grid index 4 replaced
WithCentre(b, v) == [b EXCEPT !.heights[5] = DigitChar[v]]

\* C27: the centre cell never influences adjacency: for any two runs that
\* differ only in the value at grid index 4 of block A and/or block B,
\* canBeAdjacent, findValidAdjacents and getValidBlocks give the same
\* results (the same answer, the same blocks kept), for every rotation and
\* direction.
C27_CentreCellIrrelevant ==
  \A v, w \in CentreValues :
    LET A == WithCentre(cfgA, v)
        B == WithCentre(cfgB, w)
    IN  /\ query.op = "canBeAdjacent" =>
             canBeAdjacent(A, B, query.direction) = query.ret
        /\ query.op = "findValidAdjacents" =>
             findValidAdjacents(A, query.direction, <<B, A>>)
               = [i \in DOMAIN query.ret |-> IF query.ret[i].id = cfgA.id THEN A ELSE B]
        /\ query.op = "getValidBlocks" =>
             getValidBlocks(Origin, mapSet(EmptyMap, neighborKeyOf(query.neighbor.pos), A),
                            <<B, A>>)
               = [i \in DOMAIN query.ret |-> IF query.ret[i].id = cfgA.id THEN A ELSE B]

\* a query on a block with a raised centre that keeps one of the two candidates
C27_Witness ==
  /\ query.op = "getValidBlocks"
  /\ cfgA.heights = HeightString(<<1, 1, 1, 1, 2, 1, 1, 1, 1>>)
  /\ cfgB.heights = Grid123456789
  /\ Len(query.ret) = 1
  /\ query.ret[1] = cfgA

\* the array index the heights of the points 1..5 are kept at
IndexOfPoint == <<0, 2, 6, 8, 4>>

\* the last call was made on an existing block and on one of the points ps
SculptedPoint(ops, ps) ==
  /\ event.op \in ops
  /\ event.blockIndex >= 0
  /\ event.blockIndex < Len(event.before)
  /\ event.point \in ps

HeightsBefore == event.before[event.blockIndex + 1].heights
HeightsAfter == sceneBlocks[event.blockIndex + 1].heights

\* C28: a successful sculptRaise or sculptLower on point p changes exactly
\* the cell whose height it read, at array index 0, 2, 6, 8, 4 for
\* p = 1..5, and leaves the other eight cells of the block unchanged.
C28_SculptChangesTheCellItRead ==
  (SculptedPoint({"sculptRaise", "sculptLower"}, 1..5) /\ event.ret = TRUE)
    => \A i \in 1..9 :
         (HeightsAfter[i] # HeightsBefore[i]) <=> (i = IndexOfPoint[event.point] + 1)

\* the height of the sculpted point before and after the last call
PointBefore == parseInt(<<HeightsBefore[IndexOfPoint[event.point] + 1]>>)
PointAfter == parseInt(<<HeightsAfter[IndexOfPoint[event.point] + 1]>>)

\* C29: the points 2 and 4 step through the heights 1, 3 and 5 only:
\* sculptCornerDown takes 5 to 3 and 3 to 1, sculptCornerUp takes 1 to 3 and
\* 3 to 5, and sculptCornerUp at height 5 changes nothing.
C29_EdgePointsStepByTwo ==
  /\ SculptedPoint({"sculptCornerDown"}, {2, 4})
       => /\ PointBefore = 5 => PointAfter = 3
          /\ PointBefore = 3 => PointAfter = 1
  /\ SculptedPoint({"sculptCornerUp"}, {2, 4})
       => /\ PointBefore = 1 => PointAfter = 3
          /\ PointBefore = 3 => PointAfter = 5
          /\ PointBefore = 5 => sceneBlocks = event.before


\* the blocks whose heights the last event changed, by entity
Sculpted ==
  {b.entity : b \in {event.before[k] : k \in DOMAIN event.before}
                      \ {sceneBlocks[k] : k \in DOMAIN sceneBlocks}}

\* C30: in the 4-corner system a click on a block sets selectedBlockIndex
\* to the block's current index in the blocks list, selectedBlockIndex is
\* always -1 or a valid index, and a raise or lower key press sculpts the
\* block that was clicked.
C30_ClickSelectsTheClickedBlock ==
  /\ event.op = "click"
       => selectedBlockIndex = findBlockByEntity(sceneBlocks, event.entity)
  /\ \/ selectedBlockIndex = 0 - 1
     \/ (selectedBlockIndex >= 0 /\ selectedBlockIndex < Len(sceneBlocks))
  /\ event.op \in {"raise", "lower"} => Sculpted \subseteq {event.clicked}

====
